---- MODULE Spec2Model ----
(***************************************************************************)
(* Verification model of verse-inserter (kasimlyee/verse-inserter).        *)
(*                                                                         *)
(* Twelve components are modelled, each with its own specification over   *)
(* the module's variables (the variables of the other components stay at  *)
(* their initial values):                                                  *)
(*   SpecBatch     BatchProcessor.process_batch            (core/batch_processor.py)      *)
(*   SpecGUI       MainWindow single-document run          (ui/main_window.py)            *)
(*   SpecProvider  OfflineVerseProvider.fetch_verse        (core/offline_verse_provider.py)*)
(*   SpecClient    BibleAPIClient scope, fetch, fallback   (api/bible_api_client.py)      *)
(*   SpecCache     CacheManager.get / set called directly  (core/cache_manager.py)        *)
(*   SpecDocument  DocumentProcessor with tables, headers  (core/document_processor.py)   *)
(*   SpecDownload  TranslationDownloader                   (core/translation_downloader.py)*)
(*   SpecDatabase  OfflineBibleDatabase.add_verse, by rows (core/offline_database.py)     *)
(*   SpecTranslation TranslationType.from_display_name     (models/verse.py)              *)
(*   SpecLoad      DocumentProcessor.load_document scope   (core/document_processor.py)   *)
(*   SpecSettings  Settings                                (config/settings.py)           *)
(*   SpecTemplates TemplateManager                         (core/format_template.py)      *)
(*                                                                         *)
(* Reading of the source.  Every operation is translated from the body of  *)
(* the function that implements it, and the values that flow between       *)
(* functions are modelled as the code builds them (a VerseReference is a   *)
(* record, its canonical_reference a string that drops the translation, a  *)
(* cache key a string that keeps it).  The repository holds several        *)
(* revisions of its classes layered over each other, so a few call sites   *)
(* name an attribute or a keyword that the revision of the callee under    *)
(* src/ does not declare (TranslationType.code, VerseReference.canonical,  *)
(* find_all_placeholders(translation=...), placeholders.keys()).  Such a   *)
(* name is read as the attribute the caller evidently means; the places    *)
(* are listed with the definitions they affect.                            *)
(***************************************************************************)
EXTENDS Integers, Sequences, FiniteSets, TLC

None == [none |-> TRUE]

(***************************************************************************)
(* Data model (models/verse.py)                                            *)
(***************************************************************************)

\* VerseReference: frozen pydantic model; end_verse = 0 stands for None.
VerseReference(b, c, v, e, t) ==
    [book |-> b, chapter |-> c, start_verse |-> v, end_verse |-> e, translation |-> t]

\* VerseReference.canonical_reference: "Book C:V" or "Book C:V-E".  The string
\* is modelled by the components it is formatted from; the translation is not
\* part of it.
canonical_reference(ref) ==
    [str |-> <<ref.book, ref.chapter, ref.start_verse, ref.end_verse>>]

\* Placeholder.raw_text of the primary pattern: "{{Book C:V}}".
raw_text(ref) == [raw |-> canonical_reference(ref).str]

\* Verse: the reference it answers and its text.
Verse(ref, text) == [reference |-> ref, text |-> text]

\* The text a source (the API, the cache, the offline database) holds for a
\* reference.
SourceText(src, ref) == [source |-> src, of |-> canonical_reference(ref).str]

\* Verse.formatted_text: "<canonical reference> - <text>".
formatted_text(verse) == [fmt |-> <<canonical_reference(verse.reference).str, verse.text>>]

\* The references that occur in the modelled documents.
RefJohn == VerseReference("John", 3, 16, 0, "NIV")
RefGen  == VerseReference("Genesis", 1, 1, 0, "NIV")
Refs    == {RefJohn, RefGen}

Range(s) == {s[i] : i \in DOMAIN s}

(***************************************************************************)
(* Documents.  A document is the sequence of its body paragraphs; the text *)
(* of a paragraph is a sequence of tokens: plain words, placeholders       *)
(* (raw_text), inserted verse texts and not-found sentinels.               *)
(***************************************************************************)
Word == [word |-> "text"]

NotFoundSentinel(key) == [notfound |-> key]

IsPlaceholderToken(tok) == \E r \in Refs : tok = raw_text(r)

\* PlaceholderParser.parse_text on one paragraph: one Placeholder per distinct
\* reference of the paragraph (duplicates by unique_key are dropped), in
\* position order.
RECURSIVE parse_text(_, _, _)
parse_text(text, paragraph_index, translation) ==
    IF text = <<>> THEN <<>>
    ELSE LET rest == parse_text(Tail(text), paragraph_index, translation)
             tok  == Head(text)
         IN  IF IsPlaceholderToken(tok)
             THEN LET r  == CHOOSE r \in Refs : tok = raw_text(r)
                      ph == [raw_text |-> tok,
                             reference |-> [r EXCEPT !.translation = translation],
                             paragraph_index |-> paragraph_index]
                  IN  <<ph>> \o SelectSeq(rest, LAMBDA p : p.reference # ph.reference)
             ELSE rest

\* DocumentProcessor.find_all_placeholders: the placeholders of every body
\* paragraph, in paragraph order.
RECURSIVE scan_paragraphs(_, _, _)
scan_paragraphs(document, idx, translation) ==
    IF idx > Len(document) THEN <<>>
    ELSE parse_text(document[idx], idx, translation)
         \o scan_paragraphs(document, idx + 1, translation)

\* The parser a DocumentProcessor() builds by default stamps NIV on every
\* reference it constructs (PlaceholderParser.__init__).
DefaultTranslation == "NIV"

find_all_placeholders(document) == scan_paragraphs(document, 1, DefaultTranslation)

\* find_all_placeholders(doc, translation=...) as the main window and
\* tests/test_document_processor.py call it: the same scan, the references
\* stamped with the translation the caller passes.  The revision under src/
\* does not declare the keyword.
find_all_placeholders_translation(document, translation) ==
    scan_paragraphs(document, 1, translation)

\* str.replace(raw_text, replacement_text) on the text of one paragraph.
replace_text(text, raw, replacement) ==
    [i \in DOMAIN text |-> IF text[i] = raw THEN replacement ELSE text[i]]

\* DocumentProcessor._replace_in_document.
_replace_in_document(document, placeholder, replacement_text) ==
    IF placeholder.paragraph_index <= Len(document)
       /\ placeholder.raw_text \in Range(document[placeholder.paragraph_index])
    THEN [document EXCEPT ![placeholder.paragraph_index] =
              replace_text(@, placeholder.raw_text, replacement_text)]
    ELSE document

\* dict.get(key) on the verse map.
map_get(verse_map, key) ==
    IF key \in DOMAIN verse_map THEN verse_map[key] ELSE None

\* The replacement loop of replace_placeholders over placeholders[i..].
RECURSIVE replace_loop(_, _, _, _, _)
replace_loop(document, placeholders, i, verse_map, acc) ==
    IF i > Len(placeholders)
    THEN [document |-> document, replaced |-> acc.replaced, failed |-> acc.failed]
    ELSE LET placeholder == placeholders[i]
             verse_key   == canonical_reference(placeholder.reference)
             verse       == map_get(verse_map, verse_key)
         IN  IF verse = None
             THEN replace_loop(
                      _replace_in_document(document, placeholder, NotFoundSentinel(verse_key)),
                      placeholders, i + 1, verse_map,
                      [acc EXCEPT !.failed = @ + 1])
             ELSE replace_loop(
                      _replace_in_document(document, placeholder, formatted_text(verse)),
                      placeholders, i + 1, verse_map,
                      [acc EXCEPT !.replaced = @ + 1])

\* DocumentProcessor.replace_placeholders: the document after the pass and the
\* ProcessingResult counters.  The pass rescans the document with the parser's
\* default translation.
replace_placeholders(document, verse_map) ==
    LET placeholders == find_all_placeholders(document)
        r == replace_loop(document, placeholders, 1, verse_map, [replaced |-> 0, failed |-> 0])
    IN  [document |-> r.document,
         success |-> (r.failed = 0),
         placeholders_found |-> Len(placeholders),
         placeholders_replaced |-> r.replaced,
         placeholders_failed |-> r.failed]

(***************************************************************************)
(* Cache manager (core/cache_manager.py).  The disk cache is a map from    *)
(* key strings to verses.                                                  *)
(***************************************************************************)

\* CacheManager._make_key: "<translation code>:<canonical reference>".
\* (reference.translation.code is read as the translation's short code.)
_make_key(reference) ==
    [key |-> <<reference.translation, canonical_reference(reference).str>>]

\* CacheManager.get: the cached verse, or None.
cache_get(cache, reference) == map_get(cache, _make_key(reference))

\* CacheManager.set with a disk write that succeeds (ok) or raises inside the
\* method's try block, where the error is logged and swallowed.
cache_set(cache, reference, verse, ok) ==
    IF ok
    THEN [k \in DOMAIN cache \cup {_make_key(reference)} |->
             IF k = _make_key(reference) THEN verse ELSE cache[k]]
    ELSE cache

\* A cache that already holds the references of S.
CacheHolding(S) ==
    [k \in {_make_key(r) : r \in S} |->
        LET r == CHOOSE r \in S : _make_key(r) = k
        IN  Verse(r, SourceText("cache", r))]

\* The initial cache contents the model starts from.
InitialCaches == {CacheHolding({}), CacheHolding({RefJohn})}

(***************************************************************************)
(* State.  The three components share one list of variables.               *)
(***************************************************************************)
VARIABLES
    cache,              \* contents of the disk cache (key |-> Verse)
    cache_manager,      \* TRUE iff a cache manager is configured
    \* ---- BatchProcessor.process_batch ----
    pc,                 \* position of process_batch
    file_paths,         \* the caller's list of input files
    file_placeholders,  \* file |-> placeholders of the file, by reference
    references,         \* list(all_references)
    idx,                \* index of the running loop
    verses,             \* the shared verse map, VerseReference |-> Verse
    result,             \* the BatchProcessingResult being built
    outputs,            \* output files written, input file |-> document
    resolution,         \* history: reference |-> the lookups made for it
    events,             \* history: fetches and file passes, in order
    \* ---- MainWindow ----
    is_processing,      \* MainWindow.is_processing
    selected_file,      \* MainWindow.selected_file (0: none selected)
    process_button,     \* state of the Start button
    stop_button,        \* state of the Stop button
    button_resets,      \* pending run-later callbacks of finished runs
    modal,              \* open preview dialogs, the one holding the grab last
    run,                \* run |-> state of that _process_document_async call
    worker_ui,          \* history: kinds of GUI call made by worker code
    \* ---- OfflineVerseProvider ----
    prefer_offline,     \* OfflineVerseProvider.prefer_offline
    offline_db,         \* the offline database: translations and verse rows
    statistics,         \* _offline_hits, _cache_hits, _api_calls
    call,               \* the fetch_verse call in progress or last finished
    fetch_calls,        \* history: number of fetch_verse calls made
    calls_since_reset,  \* history: fetch_verse calls since reset_statistics
    \* ---- BibleAPIClient ----
    session,            \* BibleAPIClient.session (0: None, else the session's number)
    sessions,           \* history: per session opened, the close() calls it got
    scope,              \* position of the code using the client: in or out of its scope
    request,            \* the fetch call in progress or last finished
    client_calls,       \* history: number of fetch calls made
    \* ---- CacheManager ----
    cm_log,             \* history: the get and set calls made, with their outcome
    \* ---- DocumentProcessor on a document with tables, headers, footers ----
    dp_document,        \* the document as loaded
    dp_verse_map,       \* the verse map passed to replace_placeholders
    dp_found,           \* what find_all_placeholders returned, <<>> before the scan
    dp_result,          \* what replace_placeholders returned and left in the document
    \* ---- TranslationDownloader (its database is offline_db) ----
    cancelled,          \* TranslationDownloader._cancelled
    download,           \* the download_translation call in progress or last finished
    dl_events,          \* history: cancel() calls, verse fetches started, bulk inserts
    \* ---- OfflineBibleDatabase, its tables row by row ----
    db_translations,    \* table translations: abbreviation |-> its row
    db_verses,          \* table verses: the rows in insertion order
    db_calls,           \* history: the add_verse calls made, with what they returned
    \* ---- TranslationType ----
    tt_log,             \* history: the from_display_name calls made, with their result
    \* ---- DocumentProcessor.load_document as a scope ----
    loading,            \* the 'with load_document(...)' statement in progress
    load_log,           \* history: the exceptions that left load_document scopes
    \* ---- Settings ----
    settings,           \* the fields of the Settings object
    config_file,        \* the contents of config.json (absent before the first save)
    settings_op,        \* history: the last operation made on the settings
    \* ---- TemplateManager ----
    custom_templates,   \* TemplateManager.custom_templates
    templates_file,     \* the contents of format_templates.json
    tm_returned         \* what the last TemplateManager operation returned

batchVars == <<pc, file_paths, file_placeholders, references,
               idx, verses, result, outputs, resolution, events>>

guiVars == <<is_processing, selected_file, process_button, stop_button,
             button_resets, modal, run, worker_ui>>

providerVars == <<prefer_offline, offline_db, statistics, call, fetch_calls,
                  calls_since_reset>>

clientVars == <<session, sessions, scope, request, client_calls>>

documentVars == <<dp_document, dp_verse_map, dp_found, dp_result>>

downloadVars == <<cancelled, download, dl_events>>

databaseVars == <<db_translations, db_verses, db_calls>>

\* The components that are exercised on their own, directly through their
\* public operations.
loadVars == <<loading, load_log>>

settingsVars == <<settings, config_file, settings_op>>

templateVars == <<custom_templates, templates_file, tm_returned>>

serviceVars == <<databaseVars, tt_log, loadVars, settingsVars, templateVars>>

\* The components of the document, batch and download paths.
coreVars == <<cache, cache_manager, batchVars, guiVars, providerVars, clientVars,
              cm_log, documentVars, downloadVars>>

vars == <<coreVars, serviceVars>>

\* What the steps of one component leave alone.
notBatch    == <<serviceVars, guiVars, providerVars, clientVars, cm_log, documentVars,
                 downloadVars>>
notGui      == <<serviceVars, cache_manager, batchVars, providerVars, clientVars, cm_log,
                 documentVars, downloadVars>>
notProvider == <<serviceVars, batchVars, guiVars, clientVars, cm_log, documentVars, downloadVars>>
notClient   == <<serviceVars, cache, cache_manager, batchVars, guiVars, providerVars, cm_log,
                 documentVars, downloadVars>>
notCache    == <<serviceVars, cache_manager, batchVars, guiVars, providerVars, clientVars,
                 documentVars, downloadVars>>
notDocument == <<serviceVars, cache, cache_manager, batchVars, guiVars, providerVars, clientVars,
                 cm_log, downloadVars>>
notDownload == <<serviceVars, cache, cache_manager, batchVars, guiVars, prefer_offline, statistics,
                 call, fetch_calls, calls_since_reset, clientVars, cm_log,
                 documentVars>>
notDatabase == <<coreVars, tt_log, loadVars, settingsVars, templateVars>>
notTranslation == <<coreVars, databaseVars, loadVars, settingsVars, templateVars>>
notLoad == <<coreVars, databaseVars, tt_log, settingsVars, templateVars>>
notSettings == <<coreVars, databaseVars, tt_log, loadVars, templateVars>>
notTemplates == <<coreVars, databaseVars, tt_log, loadVars, settingsVars>>

EmptyMap == [x \in {} |-> None]

(***************************************************************************)
(* The state of each component after construction.                         *)
(***************************************************************************)

\* The concurrent _process_document_async calls the model follows.  The
\* executor of the main window has more workers than that (max_workers=4).
Runs == {1, 2}

\* A run that has not been submitted.
IdleRun ==
    [pc |-> "idle", document |-> <<>>, unique_refs |-> <<>>, idx |-> 1,
     verses_dict |-> EmptyMap, dialog |-> "none", selected_replacements |-> {},
     dialog_result |-> None, selected_refs |-> {}, saved |-> <<>>,
     stopped |-> FALSE, resolved_after_stop |-> 0]

\* MainWindow.__init__: nothing selected, not processing, Start enabled,
\* Stop disabled.
GuiConstructed ==
    /\ is_processing = FALSE
    /\ selected_file = 0
    /\ process_button = "normal"
    /\ stop_button = "disabled"
    /\ button_resets = 0
    /\ modal = <<>>
    /\ run = [w \in Runs |-> IdleRun]
    /\ worker_ui = {}

\* No fetch_verse call yet.
NoCall ==
    [pc |-> "idle", reference |-> None, consulted |-> <<>>, source |-> "none",
     api |-> "none", cache_write |-> "none", offline_write |-> "none",
     returned |-> None]

\* OfflineVerseProvider.__init__ with an empty database: counters at zero.
ProviderConstructed ==
    /\ prefer_offline = TRUE
    /\ offline_db = [translations |-> {}, rows |-> EmptyMap]
    /\ statistics = [offline_hits |-> 0, cache_hits |-> 0, api_calls |-> 0]
    /\ call = NoCall
    /\ fetch_calls = 0
    /\ calls_since_reset = 0

\* No fetch call on the API client yet.
NoRequest ==
    [pc |-> "idle", op |-> "none", answers |-> <<>>, primary |-> "none",
     fallback |-> "none", raised |-> "none", returned |-> None]

\* BibleAPIClient.__init__: no session.
ClientConstructed ==
    /\ session = 0
    /\ sessions = <<>>
    /\ scope = "outside"
    /\ request = NoRequest
    /\ client_calls = 0

\* No document loaded.
NoDocument ==
    /\ dp_document = [paragraphs |-> <<>>, tables |-> <<>>, header |-> <<>>,
                      footer |-> <<>>]
    /\ dp_verse_map = EmptyMap
    /\ dp_found = <<>>
    /\ dp_result = None

\* No download_translation call yet.
NoDownload ==
    [pc |-> "idle", books |-> <<>>, book_index |-> 1, chapter |-> 1, verse_num |-> 1,
     book_verses |-> <<>>, chapter_verses |-> <<>>, returned |-> "none"]

\* TranslationDownloader.__init__.
DownloaderConstructed ==
    /\ cancelled = FALSE
    /\ download = NoDownload
    /\ dl_events = <<>>

\* OfflineBibleDatabase.__init__ on a new file: the schema, no rows.
DatabaseConstructed ==
    /\ db_translations = EmptyMap
    /\ db_verses = <<>>
    /\ db_calls = <<>>

\* No 'with load_document(...)' statement entered.
NoLoad ==
    /\ loading = [pc |-> "outside", file |-> None]
    /\ load_log = <<>>

\* The field defaults of Settings.
SettingsDefaults ==
    [api_key |-> "", theme |-> "cosmo", auto_backup |-> TRUE]

\* No config.json.
NoConfigFile == [exists |-> FALSE, data |-> SettingsDefaults]

\* Settings() on a machine without a config file: the defaults.
SettingsConstructed ==
    /\ settings = SettingsDefaults
    /\ config_file = NoConfigFile
    /\ settings_op = "__init__"

\* TemplateManager(config_dir) on a directory without a templates file.
TemplatesConstructed ==
    /\ custom_templates = <<>>
    /\ templates_file = <<>>
    /\ tm_returned = "none"

\* The components used on their own, as constructed.
ServicesConstructed ==
    /\ DatabaseConstructed
    /\ tt_log = <<>>
    /\ NoLoad
    /\ SettingsConstructed
    /\ TemplatesConstructed

\* BatchProcessor.__init__, before process_batch is called.
BatchConstructed ==
    /\ pc = "idle"
    /\ file_paths = <<>>
    /\ file_placeholders = EmptyMap
    /\ references = <<>>
    /\ idx = 1
    /\ verses = EmptyMap
    /\ result = [total_files |-> 0, successful |-> 0, failed |-> 0,
                 total_placeholders |-> 0, total_verses_inserted |-> 0,
                 file_results |-> <<>>]
    /\ outputs = EmptyMap
    /\ resolution = [r \in Refs |-> <<>>]
    /\ events = <<>>

\* The document, batch and download components as constructed.
CoreConstructed ==
    /\ cache = CacheHolding({})
    /\ cache_manager = FALSE
    /\ BatchConstructed
    /\ GuiConstructed
    /\ ProviderConstructed
    /\ ClientConstructed
    /\ cm_log = <<>>
    /\ NoDocument
    /\ DownloaderConstructed

(***************************************************************************)
(* Batch processing (core/batch_processor.py)                              *)
(***************************************************************************)
MaxFiles == 2

FileIds == 1 .. MaxFiles

DocJohn     == << <<Word, raw_text(RefJohn)>> >>
DocJohnGen  == << <<raw_text(RefJohn)>>, <<raw_text(RefGen), Word>> >>
DocGenTwice == << <<raw_text(RefGen), Word, raw_text(RefGen)>> >>

\* The document stored in input file f.
Doc(f) == CASE f % 3 = 1 -> DocJohn
            [] f % 3 = 2 -> DocJohnGen
            [] OTHER     -> DocGenTwice

\* All lists that enumerate the set S once each: what list(S) can return.
Orderings(S) ==
    {s \in [1 .. Cardinality(S) -> S] : \A x \in S : \E i \in DOMAIN s : s[i] = x}

\* The Dict[VerseReference, List] the batch processor takes a file's
\* placeholders to be: its keys are the distinct references of the file.
placeholders_by_reference(placeholders) ==
    {placeholders[i].reference : i \in DOMAIN placeholders}

\* dict.get(f, {}) on the per-file placeholders.
map_get_set(fp, f) == IF f \in DOMAIN fp THEN fp[f] ELSE {}

\* process_batch step 2: the set of unique references of all scanned files.
all_references(fp) == UNION {fp[f] : f \in DOMAIN fp}

\* The lists a scan-by-scan concatenation of the files' references can give:
\* a reference used by two files occurs twice.
RECURSIVE concat_references(_, _)
concat_references(fp, paths) ==
    IF paths = <<>> THEN {<<>>}
    ELSE {a \o b : a \in Orderings(map_get_set(fp, Head(paths))),
                   b \in concat_references(fp, Tail(paths))}

reference_list_no_dedup(fp, paths) == concat_references(fp, paths)

\* process_batch steps 2 and 3: list(all_references), the unique references
\* in whatever order the set iterates.
reference_list(fp, paths) == Orderings(all_references(fp))

fetch_finished_early(refs, i) == TRUE

\* The loop of _fetch_all_verses ends after the last reference.
fetch_finished(refs, i) == i > Len(refs)

\* dict item assignment d[k] = v.
map_set(d, k, v) == [x \in DOMAIN d \cup {k} |-> IF x = k THEN v ELSE d[x]]

\* The dict comprehension of _process_single_file: the verses whose reference
\* is one of the file's placeholders.
available_verses(vs, placeholders) ==
    [r \in {x \in DOMAIN vs : x \in placeholders} |-> vs[r]]

BatchFileResult(f, ok, found, inserted) ==
    [file_path |-> f, success |-> ok, placeholders_found |-> found,
     verses_inserted |-> inserted]

file_exception_propagates(f) ==
    [file_result |-> BatchFileResult(f, FALSE, 0, 0), saved |-> <<>>, raised |-> TRUE]

\* What the except clause of _process_single_file does with an exception of
\* the body: it becomes a failed BatchFileResult and does not propagate.
file_exception(f) ==
    [file_result |-> BatchFileResult(f, FALSE, 0, 0), saved |-> <<>>, raised |-> FALSE]

\* _process_single_file: the BatchFileResult, the document saved to the output
\* path (a list of none or one), and whether an exception left the function.
\* env names what the environment does to this pass:
\* "ok", or which of load_document, replace_placeholders, save_document raises.
_process_single_file(f, placeholders, vs, env) ==
    IF env = "load_raises" THEN file_exception(f)
    ELSE LET replacements == replace_placeholders(Doc(f), available_verses(vs, placeholders))
         IN  IF env \in {"replace_raises", "save_raises"} THEN file_exception(f)
             ELSE [file_result |-> BatchFileResult(f, TRUE, Cardinality(placeholders),
                                                  replacements.placeholders_replaced),
                   saved |-> <<replacements.document>>, raised |-> FALSE]

FileEnvs == {"ok", "load_raises", "replace_raises", "save_raises"}

InitBatch ==
    /\ cache \in InitialCaches
    /\ pc = "scan"
    /\ file_paths \in UNION {Orderings(S) : S \in SUBSET FileIds \ {{}}}
    /\ cache_manager \in BOOLEAN
    /\ file_placeholders = EmptyMap
    /\ references = <<>>
    /\ idx = 1
    /\ verses = EmptyMap
    /\ result = [total_files |-> Len(file_paths), successful |-> 0, failed |-> 0,
                 total_placeholders |-> 0, total_verses_inserted |-> 0,
                 file_results |-> <<>>]
    /\ outputs = EmptyMap
    /\ resolution = [r \in Refs |-> <<>>]
    /\ events = <<>>
    /\ GuiConstructed
    /\ ProviderConstructed
    /\ ClientConstructed
    /\ cm_log = <<>>
    /\ NoDocument
    /\ ServicesConstructed
    /\ DownloaderConstructed

\* _collect_all_placeholders, one file: the scan of a file that loads, an
\* empty placeholder set for a file that cannot be read.
CollectFile ==
    /\ pc = "scan"
    /\ idx <= Len(file_paths)
    /\ \E loads \in BOOLEAN :
         file_placeholders' = map_set(file_placeholders, file_paths[idx],
             IF loads THEN placeholders_by_reference(find_all_placeholders(Doc(file_paths[idx])))
                      ELSE {})
    /\ idx' = idx + 1
    /\ UNCHANGED <<cache, pc, file_paths, cache_manager, references, verses,
                   result, outputs, resolution, events>>
    /\ UNCHANGED notBatch

\* process_batch step 2, after the last scan: list(all_references).
CollectUnique ==
    /\ pc = "scan"
    /\ idx > Len(file_paths)
    /\ references' \in reference_list(file_placeholders, file_paths)
    /\ pc' = "fetch"
    /\ idx' = 1
    /\ UNCHANGED <<cache, file_paths, cache_manager, file_placeholders, verses,
                   result, outputs, resolution, events>>
    /\ UNCHANGED notBatch

\* _fetch_all_verses, one iteration of its loop.
FetchReference ==
    /\ pc = "fetch"
    /\ ~fetch_finished(references, idx)
    /\ LET ref    == references[idx]
           cached == IF cache_manager THEN cache_get(cache, ref) ELSE None
           looked == IF ~cache_manager THEN <<>>
                     ELSE IF cached # None THEN <<"cache_hit">> ELSE <<"cache_miss">>
       IN  IF cached # None
           THEN /\ verses' = map_set(verses, ref, cached)
                /\ resolution' = [resolution EXCEPT ![ref] = @ \o looked]
                /\ events' = Append(events, [op |-> "fetch", ref |-> ref])
                /\ UNCHANGED cache
           ELSE \E api_ok \in BOOLEAN, write_ok \in BOOLEAN :
                /\ resolution' = [resolution EXCEPT ![ref] = @ \o looked \o <<"api">>]
                /\ events' = Append(events, [op |-> "fetch", ref |-> ref])
                /\ IF api_ok
                   THEN /\ verses' = map_set(verses, ref, Verse(ref, SourceText("api", ref)))
                        /\ cache' = IF cache_manager
                                    THEN cache_set(cache, ref, Verse(ref, SourceText("api", ref)), write_ok)
                                    ELSE cache
                   ELSE UNCHANGED <<verses, cache>>
    /\ idx' = idx + 1
    /\ UNCHANGED <<pc, file_paths, cache_manager, file_placeholders, references,
                   result, outputs>>
    /\ UNCHANGED notBatch

\* _fetch_all_verses returns; process_batch enters its file loop.
FetchDone ==
    /\ pc = "fetch"
    /\ fetch_finished(references, idx)
    /\ pc' = "process"
    /\ idx' = 1
    /\ UNCHANGED <<cache, file_paths, cache_manager, file_placeholders, references,
                   verses, result, outputs, resolution, events>>
    /\ UNCHANGED notBatch

\* One iteration of the file loop of process_batch: _process_single_file and
\* the accounting that follows it.
ProcessFile ==
    /\ pc = "process"
    /\ idx <= Len(file_paths)
    /\ \E env \in FileEnvs :
         LET f == file_paths[idx]
             r == _process_single_file(f, map_get_set(file_placeholders, f), verses, env)
         IN  IF r.raised
             THEN /\ pc' = "raised"
                  /\ UNCHANGED <<result, outputs, idx, events>>
             ELSE /\ result' =
                       [result EXCEPT
                          !.file_results = Append(@, r.file_result),
                          !.successful = IF r.file_result.success THEN @ + 1 ELSE @,
                          !.failed = IF r.file_result.success THEN @ ELSE @ + 1,
                          !.total_placeholders = @ + r.file_result.placeholders_found,
                          !.total_verses_inserted = @ + r.file_result.verses_inserted]
                  /\ outputs' = IF r.saved = <<>> THEN outputs
                                ELSE map_set(outputs, f, r.saved[1])
                  /\ events' = Append(events, [op |-> "file", file_path |-> f,
                                               verses |-> verses, env |-> env])
                  /\ idx' = idx + 1
                  /\ UNCHANGED pc
    /\ UNCHANGED <<cache, file_paths, cache_manager, file_placeholders, references,
                   verses, resolution>>
    /\ UNCHANGED notBatch

\* process_batch returns its result.
BatchReturn ==
    /\ pc = "process"
    /\ idx > Len(file_paths)
    /\ pc' = "done"
    /\ UNCHANGED <<cache, file_paths, cache_manager, file_placeholders, references,
                   idx, verses, result, outputs, resolution, events>>
    /\ UNCHANGED notBatch

NextBatch ==
    \/ CollectFile
    \/ CollectUnique
    \/ FetchReference
    \/ FetchDone
    \/ ProcessFile
    \/ BatchReturn

SpecBatch == InitBatch /\ [][NextBatch]_vars

(***************************************************************************)
(* Properties of process_batch                                             *)
(***************************************************************************)
FileEvents == SelectSeq(events, LAMBDA e : e.op = "file")

Tokens(document) == UNION {Range(document[i]) : i \in DOMAIN document}

GuiFiles == {2}

\* The translation selected in the combobox when a run reads it.
SelectedTranslation == "NIV"

\* PlaceholderParser.extract_unique_references: the references of the
\* placeholders, the first of each unique_key kept, in order.
RECURSIVE extract_unique_references(_)
extract_unique_references(placeholders) ==
    IF placeholders = <<>> THEN <<>>
    ELSE <<Head(placeholders).reference>>
         \o SelectSeq(extract_unique_references(Tail(placeholders)),
                      LAMBDA r : r # Head(placeholders).reference)

\* The dict comprehension of _process_document_async: the fetched verses
\* whose key is among the references the user approved.
filtered_verses(vs, selected) ==
    [k \in {x \in DOMAIN vs : x \in selected} |-> vs[k]]

\* PreviewDialog._select_all, the dialog's initial selection: the references
\* of the placeholders that have a verse.
_select_all(placeholders, vs) ==
    {canonical_reference(placeholders[i].reference) : i \in DOMAIN placeholders}
        \cap DOMAIN vs

\* The rows of the dialog's tree: one per placeholder.
tree_rows(document) ==
    {canonical_reference(p.reference) :
        p \in Range(find_all_placeholders_translation(document, SelectedTranslation))}

_log_message_direct(calls) == calls \cup {"widget"}

\* _log_message, _update_status, _update_stats, _update_eta and the message
\* boxes of a run: each hands a closure to self.after(0, ...).
_log_message(calls) == calls \cup {"after"}

\* The worker of run w starts: it reads the translation variable, opens the
\* selected file, scans it and builds the list of unique references.
\* load_document raising, or a document without placeholders, ends the run.
RunLoad(w) ==
    /\ run[w].pc = "load"
    /\ \E loads \in BOOLEAN :
         LET document     == Doc(selected_file)
             placeholders == find_all_placeholders_translation(document, SelectedTranslation)
         IN  run' = [run EXCEPT ![w] =
                 IF loads /\ placeholders # <<>>
                 THEN [@ EXCEPT !.pc = "fetch", !.document = document,
                                !.unique_refs = extract_unique_references(placeholders),
                                !.idx = 1]
                 ELSE [@ EXCEPT !.pc = "finally"]]
    /\ worker_ui' = _log_message(worker_ui \cup {"variable_get"})
    /\ UNCHANGED <<cache, is_processing, selected_file, process_button, stop_button,
                   button_resets, modal>>
    /\ UNCHANGED notGui

\* Head of one iteration of the loop of fetch_all.  The loop ends after the
\* last reference or when is_processing is false: _fetch_verses_async returns
\* and _show_preview_dialog hands show_dialog to self.after(0, ...).
\* Otherwise the reference is looked up in the cache and, on a miss, the API
\* fetch is started.
RunFetchNext(w) ==
    /\ run[w].pc = "fetch"
    /\ IF run[w].idx > Len(run[w].unique_refs) \/ ~is_processing
       THEN run' = [run EXCEPT ![w].pc = "wait", ![w].dialog = "scheduled"]
       ELSE LET ref    == run[w].unique_refs[run[w].idx]
                cached == cache_get(cache, ref)
                count  == IF run[w].stopped THEN run[w].resolved_after_stop + 1
                          ELSE run[w].resolved_after_stop
            IN  IF cached # None
                THEN run' = [run EXCEPT
                         ![w].verses_dict = map_set(@, canonical_reference(ref), cached),
                         ![w].idx = @ + 1,
                         ![w].resolved_after_stop = count]
                ELSE run' = [run EXCEPT ![w].pc = "await",
                                        ![w].resolved_after_stop = count]
    /\ worker_ui' = _log_message(worker_ui)
    /\ UNCHANGED <<cache, is_processing, selected_file, process_button, stop_button,
                   button_resets, modal>>
    /\ UNCHANGED notGui

\* client.fetch_verse_with_fallback returns: a verse, which is stored and
\* written to the cache, or nothing.
RunFetchReturn(w) ==
    /\ run[w].pc = "await"
    /\ LET ref == run[w].unique_refs[run[w].idx]
       IN  \E found \in BOOLEAN, write_ok \in BOOLEAN :
             IF found
             THEN /\ run' = [run EXCEPT
                        ![w].verses_dict = map_set(@, canonical_reference(ref), Verse(ref, SourceText("api", ref))),
                        ![w].idx = @ + 1,
                        ![w].pc = "fetch"]
                  /\ cache' = cache_set(cache, ref, Verse(ref, SourceText("api", ref)), write_ok)
             ELSE /\ run' = [run EXCEPT ![w].idx = @ + 1, ![w].pc = "fetch"]
                  /\ UNCHANGED cache
    /\ worker_ui' = _log_message(worker_ui)
    /\ UNCHANGED <<is_processing, selected_file, process_button, stop_button,
                   button_resets, modal>>
    /\ UNCHANGED notGui

\* One turn of the wait loop of _show_preview_dialog: while there is no
\* dialog result and is_processing holds, the worker sleeps and calls
\* self.update(); an exception of update() ends the loop.
RunPreviewPoll(w) ==
    /\ run[w].pc = "wait"
    /\ run[w].dialog_result = None /\ is_processing
    /\ \E raises \in BOOLEAN :
         run' = [run EXCEPT ![w].pc = IF raises THEN "return" ELSE "wait"]
    /\ worker_ui' = worker_ui \cup {"update"}
    /\ UNCHANGED <<cache, is_processing, selected_file, process_button, stop_button,
                   button_resets, modal>>
    /\ UNCHANGED notGui

\* The wait loop ends because its condition is false.
RunPreviewExit(w) ==
    /\ run[w].pc = "wait"
    /\ ~(run[w].dialog_result = None /\ is_processing)
    /\ run' = [run EXCEPT ![w].pc = "return"]
    /\ UNCHANGED <<cache, is_processing, selected_file, process_button, stop_button,
                   button_resets, modal, worker_ui>>
    /\ UNCHANGED notGui

\* Stage 5 and 6 on a document: replace_placeholders with the approved
\* verses, then save_document to the output path, on an exception once more
\* to a timestamped path; if no save succeeds the run fails without an output.
replace_and_save(r, selected, saves) ==
    LET replaced == replace_placeholders(
                        r.document, filtered_verses(r.verses_dict, selected)).document
    IN  [r EXCEPT !.selected_refs = selected,
                  !.document = replaced,
                  !.saved = IF saves THEN <<replaced>> ELSE <<>>,
                  !.pc = "finally"]

\* "CANCELLED" handed on as if it were the selection: no reference is in it.
preview_return_unchecked(dialog_result) ==
    IF dialog_result = [cancelled |-> TRUE] THEN [selected |-> {}] ELSE dialog_result

\* The return statement of _show_preview_dialog: None if the result is
\* "CANCELLED", otherwise the result (None, or the selected references).
preview_return(dialog_result) ==
    IF dialog_result = [cancelled |-> TRUE] THEN None ELSE dialog_result

\* _show_preview_dialog returns; on None the run logs the cancellation and
\* returns, otherwise it replaces and saves.
RunPreviewReturn(w) ==
    /\ run[w].pc = "return"
    /\ \E first_ok \in BOOLEAN, second_ok \in BOOLEAN :
         LET selected_refs == preview_return(run[w].dialog_result)
         IN  run' = [run EXCEPT ![w] =
                 IF selected_refs = None
                 THEN [@ EXCEPT !.pc = "finally"]
                 ELSE replace_and_save(@, selected_refs.selected,
                                       first_ok \/ second_ok)]
    /\ worker_ui' = _log_message(worker_ui)
    /\ UNCHANGED <<cache, is_processing, selected_file, process_button, stop_button,
                   button_resets, modal>>
    /\ UNCHANGED notGui

\* The finally clause: is_processing = False, and two callbacks that reset
\* the buttons are handed to the event loop.
RunFinally(w) ==
    /\ run[w].pc = "finally"
    /\ is_processing' = FALSE
    /\ button_resets' = button_resets + 1
    /\ run' = [run EXCEPT ![w].pc = "done"]
    /\ worker_ui' = _log_message(worker_ui)
    /\ UNCHANGED <<cache, selected_file, process_button, stop_button, modal>>
    /\ UNCHANGED notGui

\* _browse_file with a file chosen in the file dialog.
BrowseFile ==
    /\ modal = <<>>
    /\ \E f \in GuiFiles : selected_file' = f
    /\ UNCHANGED <<cache, is_processing, process_button, stop_button, button_resets,
                   modal, run, worker_ui>>
    /\ UNCHANGED notGui

\* _process_document, from the Start button (when it is enabled) or from the
\* Ctrl+P binding of the window, with a file selected and the API key set:
\* it returns early while is_processing holds, otherwise it sets
\* is_processing, switches the buttons and submits _process_document_async.
ProcessDocument ==
    /\ modal = <<>>
    /\ \E via \in {"button", "shortcut"} : via = "button" => process_button = "normal"
    /\ selected_file # 0
    /\ ~is_processing
    /\ \E w \in Runs :
         /\ run[w].pc = "idle"
         /\ \A v \in Runs : v < w => run[v].pc # "idle"
         /\ run' = [run EXCEPT ![w].pc = "load"]
    /\ is_processing' = TRUE
    /\ process_button' = "disabled"
    /\ stop_button' = "normal"
    /\ UNCHANGED <<cache, selected_file, button_resets, modal, worker_ui>>
    /\ UNCHANGED notGui

\* _stop_processing, from the Stop button: clears is_processing if it is set.
\* The runs that are fetching at that moment are marked as stopped.
StopProcessing ==
    /\ modal = <<>>
    /\ stop_button = "normal"
    /\ is_processing
    /\ is_processing' = FALSE
    /\ run' = [w \in Runs |->
                 IF run[w].pc \in {"fetch", "await"}
                 THEN [run[w] EXCEPT !.stopped = TRUE]
                 ELSE run[w]]
    /\ UNCHANGED <<cache, selected_file, process_button, stop_button, button_resets,
                   modal, worker_ui>>
    /\ UNCHANGED notGui

\* The event loop runs the two callbacks a finished run left: Start enabled,
\* Stop disabled.
ResetButtons ==
    /\ button_resets > 0
    /\ button_resets' = button_resets - 1
    /\ process_button' = "normal"
    /\ stop_button' = "disabled"
    /\ UNCHANGED <<cache, is_processing, selected_file, modal, run, worker_ui>>
    /\ UNCHANGED notGui

\* The event loop runs show_dialog of run w: the PreviewDialog opens with
\* every reference that has a verse selected, and takes the grab.
ShowDialog(w) ==
    /\ run[w].dialog = "scheduled"
    /\ run' = [run EXCEPT
           ![w].dialog = "open",
           ![w].selected_replacements =
               _select_all(find_all_placeholders_translation(run[w].document, SelectedTranslation),
                           run[w].verses_dict)]
    /\ modal' = Append(modal, w)
    /\ UNCHANGED <<cache, is_processing, selected_file, process_button, stop_button,
                   button_resets, worker_ui>>
    /\ UNCHANGED notGui

\* The dialog that holds the grab.
TopDialog == modal[Len(modal)]

\* The selections the user can reach with _toggle_item from the selection
\* the dialog opened with: any set of rows.
reachable_selections(document) == SUBSET tree_rows(document)

\* The user toggles rows and presses Proceed with a non-empty selection
\* (_on_proceed); wait_window returns and show_dialog stores the selected
\* references.
DialogProceed ==
    /\ modal # <<>>
    /\ \E selection \in reachable_selections(run[TopDialog].document) :
         /\ selection # {}
         /\ run' = [run EXCEPT
                ![TopDialog].dialog = "closed",
                ![TopDialog].selected_replacements = selection,
                ![TopDialog].dialog_result = [selected |-> selection]]
    /\ modal' = SubSeq(modal, 1, Len(modal) - 1)
    /\ UNCHANGED <<cache, is_processing, selected_file, process_button, stop_button,
                   button_resets, worker_ui>>
    /\ UNCHANGED notGui

\* PreviewDialog._on_cancel, or the dialog window closed; show_dialog stores
\* "CANCELLED".
DialogCancel ==
    /\ modal # <<>>
    /\ run' = [run EXCEPT
           ![TopDialog].dialog = "closed",
           ![TopDialog].dialog_result = [cancelled |-> TRUE]]
    /\ modal' = SubSeq(modal, 1, Len(modal) - 1)
    /\ UNCHANGED <<cache, is_processing, selected_file, process_button, stop_button,
                   button_resets, worker_ui>>
    /\ UNCHANGED notGui

InitGUI ==
    /\ cache = CacheHolding({RefJohn})
    /\ cache_manager = TRUE
    /\ GuiConstructed
    /\ BatchConstructed
    /\ ProviderConstructed
    /\ ClientConstructed
    /\ cm_log = <<>>
    /\ NoDocument
    /\ ServicesConstructed
    /\ DownloaderConstructed

NextGUI ==
    \/ BrowseFile
    \/ ProcessDocument
    \/ StopProcessing
    \/ ResetButtons
    \/ DialogProceed
    \/ DialogCancel
    \/ \E w \in Runs :
         \/ ShowDialog(w)
         \/ RunLoad(w)
         \/ RunFetchNext(w)
         \/ RunFetchReturn(w)
         \/ RunPreviewPoll(w)
         \/ RunPreviewExit(w)
         \/ RunPreviewReturn(w)
         \/ RunFinally(w)

SpecGUI == InitGUI /\ [][NextGUI]_vars

(***************************************************************************)
(* Properties of the single-document run                                   *)
(***************************************************************************)

ActiveRuns == {w \in Runs : run[w].pc \notin {"idle", "done"}}

\* C24: at most one _process_document_async worker is active at any time.
C24_OneActiveRun ==
    Cardinality(ActiveRuns) <= 1

MaxCalls == 3

RefJohnRange == VerseReference("John", 3, 16, 17, "NIV")

\* The references fetch_verse is called with.
ProviderRefs == {RefJohn, RefJohnRange}

\* A row of the verses table is found by translation, book, chapter, verse.
row_key(translation, book, chapter, verse) ==
    [translation |-> translation, book |-> book, chapter |-> chapter, verse |-> verse]

\* OfflineBibleDatabase.has_translation.
has_translation(db, translation) == translation \in db.translations

\* OfflineBibleDatabase.get_verse: the row of the reference's start verse.
get_verse(db, reference) ==
    LET k == row_key(reference.translation, reference.book, reference.chapter,
                     reference.start_verse)
    IN  IF k \in DOMAIN db.rows THEN Verse(reference, db.rows[k]) ELSE None

\* The texts of the rows of verses from..to of a chapter, in verse order.
RECURSIVE rows_between(_, _, _, _)
rows_between(db, reference, from, to) ==
    IF from > to THEN <<>>
    ELSE LET k == row_key(reference.translation, reference.book, reference.chapter, from)
         IN  (IF k \in DOMAIN db.rows THEN <<db.rows[k]>> ELSE <<>>)
             \o rows_between(db, reference, from + 1, to)

\* OfflineBibleDatabase.get_verse_range: the texts of the rows in the range,
\* joined.
get_verse_range(db, reference) ==
    IF reference.end_verse = 0 THEN get_verse(db, reference)
    ELSE LET texts == rows_between(db, reference, reference.start_verse, reference.end_verse)
         IN  IF texts = <<>> THEN None ELSE Verse(reference, [joined |-> texts])

\* OfflineBibleDatabase.add_verse when the session does not fail: nothing for
\* an unregistered translation, otherwise the row of the verse's start verse
\* is inserted or updated.
add_verse(db, translation, verse) ==
    IF ~has_translation(db, translation) THEN db
    ELSE [db EXCEPT !.rows =
             map_set(@, row_key(translation, verse.reference.book,
                                verse.reference.chapter, verse.reference.start_verse),
                     verse.text)]

\* OfflineVerseProvider._try_offline; db_raises: the database lookup raises,
\* which the method turns into None.
_try_offline(db, reference, db_raises) ==
    IF db_raises THEN None
    ELSE IF ~has_translation(db, reference.translation) THEN None
    ELSE IF reference.end_verse # 0 THEN get_verse_range(db, reference)
    ELSE get_verse(db, reference)

\* The cache asked before the offline database.
lookup_cache_first(db, kept, reference, prefer, cm, db_raises) ==
    LET cached  == IF cm THEN cache_get(kept, reference) ELSE None
        offline == IF prefer THEN _try_offline(db, reference, db_raises) ELSE None
    IN  IF cached # None
        THEN [consulted |-> <<"cache">>, source |-> "cache", verse |-> cached]
        ELSE IF offline # None
        THEN [consulted |-> (IF cm THEN <<"cache">> ELSE <<>>) \o <<"offline">>,
              source |-> "offline", verse |-> offline]
        ELSE [consulted |-> (IF cm THEN <<"cache">> ELSE <<>>)
                            \o (IF prefer THEN <<"offline">> ELSE <<>>),
              source |-> "none", verse |-> None]

\* fetch_verse up to the API call: the offline database if prefer_offline,
\* then the cache if one is configured; the sources consulted, in order, and
\* the verse of the first hit.
lookup(db, kept, reference, prefer, cm, db_raises) ==
    LET offline == IF prefer THEN _try_offline(db, reference, db_raises) ELSE None
        cached  == IF cm THEN cache_get(kept, reference) ELSE None
        first   == IF prefer THEN <<"offline">> ELSE <<>>
    IN  IF offline # None
        THEN [consulted |-> first, source |-> "offline", verse |-> offline]
        ELSE IF cached # None
        THEN [consulted |-> first \o <<"cache">>, source |-> "cache", verse |-> cached]
        ELSE [consulted |-> first \o (IF cm THEN <<"cache">> ELSE <<>>),
              source |-> "none", verse |-> None]

add_verse_exception_propagates(verse) == None

\* What fetch_verse returns when offline_db.add_verse raises: the inner
\* except logs a warning and the verse is returned.
add_verse_exception(verse) == verse

\* The initial contents of the offline database.
InitialDatabases ==
    {[translations |-> {}, rows |-> EmptyMap],
     [translations |-> {"NIV"}, rows |-> EmptyMap],
     [translations |-> {"NIV"},
      rows |-> [k \in {row_key("NIV", "John", 3, 16)} |-> SourceText("offline", RefJohn)]]}

InitProvider ==
    /\ cache \in InitialCaches
    /\ cache_manager \in BOOLEAN
    /\ prefer_offline \in BOOLEAN
    /\ offline_db \in InitialDatabases
    /\ statistics = [offline_hits |-> 0, cache_hits |-> 0, api_calls |-> 0]
    /\ call = NoCall
    /\ fetch_calls = 0
    /\ calls_since_reset = 0
    /\ BatchConstructed
    /\ GuiConstructed
    /\ ClientConstructed
    /\ cm_log = <<>>
    /\ NoDocument
    /\ ServicesConstructed
    /\ DownloaderConstructed

\* fetch_verse(reference) up to its await: an offline hit or a cache hit
\* counts and returns; otherwise the API request is sent.
FetchVerse ==
    /\ call.pc # "api"
    /\ fetch_calls < MaxCalls
    /\ fetch_calls' = fetch_calls + 1
    /\ calls_since_reset' = calls_since_reset + 1
    /\ \E reference \in ProviderRefs, db_raises \in BOOLEAN :
         LET found == lookup(offline_db, cache, reference, prefer_offline,
                             cache_manager, db_raises)
         IN  /\ call' = [NoCall EXCEPT
                    !.pc = IF found.source = "none" THEN "api" ELSE "returned",
                    !.reference = reference,
                    !.consulted = found.consulted,
                    !.source = found.source,
                    !.returned = found.verse]
             /\ statistics' =
                  [statistics EXCEPT
                     !.offline_hits = IF found.source = "offline" THEN @ + 1 ELSE @,
                     !.cache_hits = IF found.source = "cache" THEN @ + 1 ELSE @]
    /\ UNCHANGED <<cache, cache_manager, prefer_offline, offline_db>>
    /\ UNCHANGED notProvider

\* api_client.fetch_verse raises: the outer except returns None.
ApiRaises ==
    /\ call.pc = "api"
    /\ call' = [call EXCEPT !.pc = "returned", !.consulted = Append(@, "api"),
                            !.api = "raises", !.returned = None]
    /\ UNCHANGED <<cache, cache_manager, prefer_offline, offline_db, statistics,
                   fetch_calls, calls_since_reset>>
    /\ UNCHANGED notProvider

\* api_client.fetch_verse returns the verse: the API call is counted, the
\* verse is written to the cache if one is configured and to the offline
\* database if prefer_offline, and returned.  Either write can fail.
ApiReturns ==
    /\ call.pc = "api"
    /\ \E cache_ok \in BOOLEAN, db_write \in {"ok", "raises"} :
         LET verse == Verse(call.reference, SourceText("api", call.reference))
         IN  /\ statistics' = [statistics EXCEPT !.api_calls = @ + 1]
             /\ cache' = IF cache_manager
                         THEN cache_set(cache, call.reference, verse, cache_ok)
                         ELSE cache
             /\ offline_db' = IF prefer_offline /\ db_write = "ok"
                              THEN add_verse(offline_db, call.reference.translation, verse)
                              ELSE offline_db
             /\ call' = [call EXCEPT
                    !.pc = "returned",
                    !.consulted = Append(@, "api"),
                    !.api = "ok",
                    !.source = "api",
                    !.cache_write = IF ~cache_manager THEN "none"
                                    ELSE IF cache_ok THEN "ok" ELSE "fails",
                    !.offline_write = IF ~prefer_offline THEN "none" ELSE db_write,
                    !.returned = IF prefer_offline /\ db_write = "raises"
                                 THEN add_verse_exception(verse)
                                 ELSE verse]
    /\ UNCHANGED <<cache_manager, prefer_offline, fetch_calls, calls_since_reset>>
    /\ UNCHANGED notProvider

\* get_statistics: the total and the per-source counts.  (The percentages
\* are the counts over the total, 0 when the total is 0.)
get_statistics(st) ==
    [total_requests |-> st.offline_hits + st.cache_hits + st.api_calls,
     offline_hits |-> st.offline_hits,
     cache_hits |-> st.cache_hits,
     api_calls |-> st.api_calls]

\* reset_statistics.
ResetStatistics ==
    /\ call.pc # "api"
    /\ statistics' = [offline_hits |-> 0, cache_hits |-> 0, api_calls |-> 0]
    /\ calls_since_reset' = 0
    /\ UNCHANGED <<cache, cache_manager, prefer_offline, offline_db, call, fetch_calls>>
    /\ UNCHANGED notProvider

NextProvider ==
    \/ FetchVerse
    \/ ApiRaises
    \/ ApiReturns
    \/ ResetStatistics

SpecProvider == InitProvider /\ [][NextProvider]_vars

(***************************************************************************)
(* Properties of OfflineVerseProvider.fetch_verse                          *)
(***************************************************************************)

C11_TotalCountsEveryCall ==
    call.pc # "api" =>
        get_statistics(statistics).total_requests = calls_since_reset

MaxScopes == 2

MaxClientCalls == 2

\* stop_after_attempt(3) of the retry decorator of fetch_verse.
MaxAttempts == 3

\* What the service can answer to one request: a status, with or without
\* verse text for 200, or a failure of the connection (aiohttp.ClientError).
Answers == {"200", "200_empty", "401", "429", "404", "500", "ClientError"}

\* One execution of the body of fetch_verse with the given session: the
\* verse it returns or the exception it raises.  A 200 answer whose content
\* is empty after cleaning fails the validation of Verse (text has
\* min_length 1).
fetch_verse_body(sess, reference, answer) ==
    LET raise(e) == [raises |-> e, verse |-> None]
    IN  IF sess = 0 THEN raise("RuntimeError")
        ELSE IF answer = "200"
        THEN [raises |-> "none", verse |-> Verse(reference, SourceText("api", reference))]
        ELSE IF answer = "200_empty" THEN raise("ValidationError")
        ELSE IF answer = "401" THEN raise("AuthenticationError")
        ELSE IF answer = "429" THEN raise("RateLimitError")
        ELSE raise("APIError")

\* The decorator @retry(stop=stop_after_attempt(3), wait=wait_exponential(...)):
\* no retry= argument, so an attempt that raised any exception is repeated,
\* and no reraise=True, so after the last attempt the wrapper raises
\* tenacity.RetryError in place of the attempt's exception.
retry(outcome, attempt_number) ==
    IF outcome.raises = "none"
    THEN [next |-> "return", raises |-> "none", verse |-> outcome.verse]
    ELSE IF attempt_number >= MaxAttempts
    THEN [next |-> "raise", raises |-> "RetryError", verse |-> None]
    ELSE [next |-> "attempt", raises |-> "none", verse |-> None]

\* __aexit__ that leaves the session as it is.
__aexit__leaves_open(sess, opened) == [session |-> sess, sessions |-> opened]

\* BibleAPIClient.__aexit__: an open session is closed and forgotten.
__aexit__(sess, opened) ==
    IF sess # 0
    THEN [session |-> 0, sessions |-> [opened EXCEPT ![sess] = @ + 1]]
    ELSE [session |-> 0, sessions |-> opened]

\* The primary's exception leaves fetch_verse_with_fallback.
after_primary_propagates(decided) ==
    IF decided.next = "return" THEN "return" ELSE "raise"

\* fetch_verse_with_fallback after the primary fetch: a verse with text is
\* returned, anything else (an exception included) goes on to the fallback.
after_primary(decided) ==
    IF decided.next = "return" /\ decided.verse # None THEN "return" ELSE "fallback"

\* What the free fallback client gives inside its own scope: a verse, None
\* (it fails soft on a non-200 answer or a missing verses field) or an
\* exception.
FallbackOutcomes == {"verse", "absent", "raises"}

free_client_fetch_verse(reference, outcome) ==
    IF outcome = "verse"
    THEN Verse(reference, SourceText("fallback", reference))
    ELSE None

InitClient ==
    /\ ClientConstructed
    /\ cache = CacheHolding({})
    /\ cache_manager = FALSE
    /\ BatchConstructed
    /\ GuiConstructed
    /\ ProviderConstructed
    /\ cm_log = <<>>
    /\ NoDocument
    /\ ServicesConstructed
    /\ DownloaderConstructed

\* async with client: __aenter__ opens a session.
ClientEnter ==
    /\ scope = "outside"
    /\ Len(sessions) < MaxScopes
    /\ session' = Len(sessions) + 1
    /\ sessions' = Append(sessions, 0)
    /\ scope' = "inside"
    /\ UNCHANGED <<request, client_calls>>
    /\ UNCHANGED notClient

\* The block of the async with is left, normally or by an exception, and
\* __aexit__ runs.
ClientExit ==
    /\ scope \in {"inside", "raising"}
    /\ request.pc \in {"idle", "done"}
    /\ LET after == __aexit__(session, sessions)
       IN  /\ session' = after.session
           /\ sessions' = after.sessions
    /\ scope' = IF scope = "raising" THEN "outside_raised" ELSE "outside"
    /\ UNCHANGED <<request, client_calls>>
    /\ UNCHANGED notClient

\* The code that left the scope by an exception handles it and goes on.
ClientHandled ==
    /\ scope = "outside_raised"
    /\ scope' = "outside"
    /\ UNCHANGED <<session, sessions, request, client_calls>>
    /\ UNCHANGED notClient

\* fetch_verse or fetch_verse_with_fallback is called, inside the scope or
\* (as the dialogs and the tests do) on a client never entered.
ClientFetch ==
    /\ scope \in {"inside", "outside"}
    /\ request.pc \in {"idle", "done"}
    /\ client_calls < MaxClientCalls
    /\ client_calls' = client_calls + 1
    /\ \E op \in {"fetch_verse", "fetch_verse_with_fallback"} :
         request' = [NoRequest EXCEPT !.pc = "attempt", !.op = op]
    /\ UNCHANGED <<session, sessions, scope>>
    /\ UNCHANGED notClient

\* One attempt of fetch_verse and the decision of the retry wrapper; for
\* fetch_verse_with_fallback, the try around the primary fetch.
ClientAttempt ==
    /\ request.pc = "attempt"
    /\ \E answer \in Answers :
         LET outcome == fetch_verse_body(session, RefJohn, answer)
             answers == Append(request.answers,
                               IF session = 0 THEN "no_session" ELSE answer)
             decided  == retry(outcome, Len(answers))
             primary == IF decided.next = "return" THEN "verse" ELSE decided.raises
         IN  IF decided.next = "attempt"
             THEN /\ request' = [request EXCEPT !.answers = answers]
                  /\ scope' = scope
             ELSE IF request.op = "fetch_verse"
             THEN /\ request' = [request EXCEPT
                        !.pc = "done", !.answers = answers, !.primary = primary,
                        !.raised = decided.raises, !.returned = decided.verse]
                  /\ scope' = IF decided.next = "raise" /\ scope = "inside"
                              THEN "raising" ELSE scope
             ELSE LET step == after_primary(decided)
                  IN  /\ request' = [request EXCEPT
                             !.pc = IF step = "fallback" THEN "fallback" ELSE "done",
                             !.answers = answers, !.primary = primary,
                             !.raised = IF step = "raise" THEN decided.raises ELSE "none",
                             !.returned = IF step = "return" THEN decided.verse ELSE None]
                      /\ scope' = IF step = "raise" /\ scope = "inside"
                                  THEN "raising" ELSE scope
    /\ UNCHANGED <<session, sessions, client_calls>>
    /\ UNCHANGED notClient

\* fetch_verse_with_fallback: the free fallback client inside its own scope;
\* a verse with text is returned, anything else gives None.
ClientFallback ==
    /\ request.pc = "fallback"
    /\ \E outcome \in FallbackOutcomes :
         request' = [request EXCEPT
             !.pc = "done", !.fallback = outcome,
             !.returned = free_client_fetch_verse(RefJohn, outcome)]
    /\ UNCHANGED <<session, sessions, scope, client_calls>>
    /\ UNCHANGED notClient

NextClient ==
    \/ ClientEnter
    \/ ClientExit
    \/ ClientHandled
    \/ ClientFetch
    \/ ClientAttempt
    \/ ClientFallback

SpecClient == InitClient /\ [][NextClient]_vars

(***************************************************************************)
(* Properties of BibleAPIClient                                            *)
(***************************************************************************)

\* C12: fetch_verse makes at most 3 attempts, every attempt that was followed
\* by another one had been answered 429, and a call whose three attempts
\* were all answered 429 raises RateLimitError to its caller.
C12_ReattemptsOnlyThrottled ==
    /\ Len(request.answers) <= MaxAttempts
    /\ \A i \in 1 .. Len(request.answers) - 1 : request.answers[i] = "429"
    /\ (request.pc \in {"fallback", "done"} /\ request.answers = <<"429", "429", "429">>)
          => request.primary = "RateLimitError"

\* C13: a fetch_verse call that ended on a 401 answer raises
\* AuthenticationError to its caller.
C13_UnauthorizedIsAuthenticationError ==
    (/\ request.pc \in {"fallback", "done"}
     /\ request.answers # <<>>
     /\ request.answers[Len(request.answers)] = "401")
        => request.primary = "AuthenticationError"

\* C14: fetch_verse_with_fallback raises nothing; when the primary fetch gave
\* no verse the fallback client was tried; it returns the primary's verse,
\* else the fallback's verse, and None exactly when the primary failed and
\* the fallback failed or gave nothing.
C14_FallbackNeverRaises ==
    request.op = "fetch_verse_with_fallback" =>
        /\ request.raised = "none"
        /\ scope # "raising"
        /\ request.pc = "done" =>
             /\ request.primary # "verse" => request.fallback # "none"
             /\ request.primary = "verse" =>
                  request.returned = Verse(RefJohn, SourceText("api", RefJohn))
             /\ (request.primary # "verse" /\ request.fallback = "verse") =>
                  request.returned = Verse(RefJohn, SourceText("fallback", RefJohn))
             /\ request.returned = None <=>
                  (request.primary # "verse" /\ request.fallback \in {"absent", "raises"})

\* A fetch_verse_with_fallback call whose primary fetch was throttled three
\* times and that returned the fallback's verse.
C14_Witness ==
    /\ request.pc = "done"
    /\ request.op = "fetch_verse_with_fallback"
    /\ request.answers = <<"429", "429", "429">>
    /\ request.primary = "RetryError"
    /\ request.returned = Verse(RefJohn, SourceText("fallback", RefJohn))

\* C15: no session is closed twice; inside the scope the client holds the
\* session that entering opened, not yet closed; once the scope is left,
\* normally or by an exception, the client holds no session and every
\* session opened so far has been closed exactly once.
C15_SessionClosedOnce ==
    /\ \A i \in DOMAIN sessions : sessions[i] <= 1
    /\ scope \in {"inside", "raising"} =>
         /\ session = Len(sessions)
         /\ session # 0
         /\ \A i \in DOMAIN sessions : sessions[i] = (IF i = session THEN 0 ELSE 1)
    /\ scope \in {"outside", "outside_raised"} =>
         /\ session = 0
         /\ \A i \in DOMAIN sessions : sessions[i] = 1

\* The second scope of a client was left by the exception of a fetch_verse
\* call, and both sessions are closed.
C15_Witness ==
    /\ scope = "outside_raised"
    /\ request.raised = "RetryError"
    /\ Len(sessions) = 2
    /\ session = 0
    /\ \A i \in DOMAIN sessions : sessions[i] = 1

(***************************************************************************)
(* CacheManager.get and CacheManager.set called directly                   *)
(* (core/cache_manager.py).  The specifications above follow the cache     *)
(* through its callers with the key _make_key means; this one follows the  *)
(* two methods statement by statement, the evaluation of the key included. *)
(***************************************************************************)
MaxCacheCalls == 2

RefJohnKJV == VerseReference("John", 3, 16, 0, "KJV")

CacheRefs == {RefJohn, RefGen, RefJohnKJV}

\* What a member of the enum TranslationType has: name and value of an Enum
\* member and the property display_name.
TranslationTypeAttributes == {"name", "value", "display_name"}

\* CacheManager.get: the key, then the read inside try/except.  read_ok:
\* the read of the disk cache does not raise.
CacheManager_get(kept, reference, read_ok) ==
    IF "code" \notin TranslationTypeAttributes
    THEN [raises |-> "AttributeError", verse |-> None]
    ELSE IF read_ok
    THEN [raises |-> "none", verse |-> cache_get(kept, reference)]
    ELSE [raises |-> "none", verse |-> None]

\* CacheManager.set: the key, then the write inside try/except.
CacheManager_set(kept, reference, verse, write_ok) ==
    IF "code" \notin TranslationTypeAttributes
    THEN [raises |-> "AttributeError", cache |-> kept]
    ELSE [raises |-> "none", cache |-> cache_set(kept, reference, verse, write_ok)]

InitCache ==
    /\ cache \in InitialCaches
    /\ cache_manager = TRUE
    /\ cm_log = <<>>
    /\ BatchConstructed
    /\ GuiConstructed
    /\ ProviderConstructed
    /\ ClientConstructed
    /\ NoDocument
    /\ ServicesConstructed
    /\ DownloaderConstructed

CacheGet ==
    /\ Len(cm_log) < MaxCacheCalls
    /\ \E reference \in CacheRefs, read_ok \in BOOLEAN :
         LET got == CacheManager_get(cache, reference, read_ok)
         IN  cm_log' = Append(cm_log,
                 [op |-> "get", reference |-> reference, backend_ok |-> read_ok,
                  raises |-> got.raises, returned |-> got.verse])
    /\ UNCHANGED cache
    /\ UNCHANGED notCache

CacheSet ==
    /\ Len(cm_log) < MaxCacheCalls
    /\ \E reference \in CacheRefs, write_ok \in BOOLEAN :
         LET verse == Verse(reference, SourceText("api", reference))
             done  == CacheManager_set(cache, reference, verse, write_ok)
         IN  /\ cache' = done.cache
             /\ cm_log' = Append(cm_log,
                 [op |-> "set", reference |-> reference, backend_ok |-> write_ok,
                  raises |-> done.raises, returned |-> None])
    /\ UNCHANGED notCache

NextCache ==
    \/ CacheGet
    \/ CacheSet

SpecCache == InitCache /\ [][NextCache]_vars

\* C16: no get and no set call raises to its caller, and a get whose read
\* failed returns None.
C16_GetSetNeverRaise ==
    \A i \in DOMAIN cm_log :
        /\ cm_log[i].raises = "none"
        /\ (cm_log[i].op = "get" /\ ~cm_log[i].backend_ok) => cm_log[i].returned = None

(***************************************************************************)
(* DocumentProcessor on documents with tables, headers and footers          *)
(* (core/document_processor.py).  Such a document has its body paragraphs, *)
(* its table cells in document order (each cell a sequence of paragraphs),  *)
(* and the header and footer paragraphs of its section.                    *)
(***************************************************************************)

\* DocumentProcessor._scan_tables: every paragraph of every cell is parsed
\* with its index inside the cell.
RECURSIVE _scan_tables(_)
_scan_tables(tables) ==
    IF tables = <<>> THEN <<>>
    ELSE scan_paragraphs(Head(tables), 1, DefaultTranslation) \o _scan_tables(Tail(tables))

\* DocumentProcessor._scan_headers_footers: the header's paragraphs, then the
\* footer's, each parsed with its index inside the header or footer.
_scan_headers_footers(document) ==
    scan_paragraphs(document.header, 1, DefaultTranslation)
    \o scan_paragraphs(document.footer, 1, DefaultTranslation)

\* DocumentProcessor.find_all_placeholders with scan_tables and
\* scan_headers_footers at their default True.
find_all_placeholders_full(document) ==
    find_all_placeholders(document.paragraphs)
    \o _scan_tables(document.tables)
    \o _scan_headers_footers(document)

\* DocumentProcessor.replace_placeholders on such a document: the loop hands
\* every placeholder to _replace_in_document, which looks the paragraph up in
\* document.paragraphs, the paragraphs of the body.
replace_placeholders_full(document, verse_map) ==
    LET placeholders == find_all_placeholders_full(document)
        r == replace_loop(document.paragraphs, placeholders, 1, verse_map,
                          [replaced |-> 0, failed |-> 0])
    IN  [document |-> [document EXCEPT !.paragraphs = r.document],
         success |-> (r.failed = 0),
         placeholders_found |-> Len(placeholders),
         placeholders_replaced |-> r.replaced,
         placeholders_failed |-> r.failed]

\* The documents and verse maps the model starts from.
Bodies == {<<>>, << <<Word>> >>, DocJohn, DocJohnGen}

TableCells ==
    {<<>>,
     << << <<raw_text(RefJohn)>> >> >>,
     << << <<Word>> >>, << <<Word>>, <<raw_text(RefGen), Word>> >> >>}

Headers == {<<>>, << <<raw_text(RefJohn), Word>> >>}

Footers == {<<>>, << <<raw_text(RefGen)>> >>}

VerseMaps ==
    {[k \in {canonical_reference(r) : r \in S} |->
         LET r == CHOOSE r \in S : canonical_reference(r) = k
         IN  Verse(r, SourceText("api", r))] : S \in SUBSET Refs}

InitDocument ==
    /\ dp_document \in [paragraphs : Bodies, tables : TableCells,
                        header : Headers, footer : Footers]
    /\ dp_verse_map \in VerseMaps
    /\ dp_found = <<>>
    /\ dp_result = None
    /\ cache = CacheHolding({})
    /\ cache_manager = FALSE
    /\ BatchConstructed
    /\ GuiConstructed
    /\ ProviderConstructed
    /\ ClientConstructed
    /\ cm_log = <<>>
    /\ DownloaderConstructed
    /\ ServicesConstructed

\* The caller scans the loaded document.
ScanDocument ==
    /\ dp_found = <<>>
    /\ dp_result = None
    /\ dp_found' = <<find_all_placeholders_full(dp_document)>>
    /\ UNCHANGED <<dp_document, dp_verse_map, dp_result>>
    /\ UNCHANGED notDocument

\* The caller runs replace_placeholders on the loaded document.
ReplacePlaceholders ==
    /\ dp_result = None
    /\ dp_result' = replace_placeholders_full(dp_document, dp_verse_map)
    /\ UNCHANGED <<dp_document, dp_verse_map, dp_found>>
    /\ UNCHANGED notDocument

NextDocument ==
    \/ ScanDocument
    \/ ReplacePlaceholders

SpecDocument == InitDocument /\ [][NextDocument]_vars

(***************************************************************************)
(* Properties of replace_placeholders                                      *)
(***************************************************************************)

\* Every paragraph of a document, in one order: body, table cells, header,
\* footer.
RECURSIVE Flatten(_)
Flatten(cells) == IF cells = <<>> THEN <<>> ELSE Head(cells) \o Flatten(Tail(cells))

AllParagraphs(document) ==
    document.paragraphs \o Flatten(document.tables) \o document.header \o document.footer

\* The reference a placeholder token names.
ReferenceOf(tok) == CHOOSE r \in Refs : tok = raw_text(r)

Missing(tok) ==
    IsPlaceholderToken(tok) /\ canonical_reference(ReferenceOf(tok)) \notin DOMAIN dp_verse_map

Supplied(tok) ==
    IsPlaceholderToken(tok) /\ canonical_reference(ReferenceOf(tok)) \in DOMAIN dp_verse_map

\* C17: after replace_placeholders, wherever the document held a placeholder
\* whose canonical reference is not in the verse map it holds the sentinel
\* "[Verse Not Found: <reference>]"; placeholders_failed is the number of
\* those placeholders, the placeholders with a verse are still handled, and
\* success is false when there is one.
C17_MissingGetsSentinel ==
    dp_result # None =>
        LET before == AllParagraphs(dp_document)
            after  == AllParagraphs(dp_result.document)
            found  == find_all_placeholders_full(dp_document)
            failed == {k \in DOMAIN found :
                          canonical_reference(found[k].reference) \notin DOMAIN dp_verse_map}
        IN  /\ \A i \in DOMAIN before : \A j \in DOMAIN before[i] :
                  Missing(before[i][j]) =>
                      after[i][j] = NotFoundSentinel(canonical_reference(ReferenceOf(before[i][j])))
            /\ dp_result.placeholders_failed = Cardinality(failed)
            /\ dp_result.placeholders_replaced = Len(found) - Cardinality(failed)
            /\ failed # {} => ~dp_result.success

\* C18: after replace_placeholders, wherever the document held a placeholder
\* that has a verse in the map (in the body, a table cell, the header or the
\* footer) it holds the verse's formatted text, placeholders_replaced is the
\* number of those placeholders, and a paragraph that held no placeholder is
\* as it was.
C18_ReplacedInItsParagraph ==
    dp_result # None =>
        LET before == AllParagraphs(dp_document)
            after  == AllParagraphs(dp_result.document)
            found  == find_all_placeholders_full(dp_document)
            done   == {k \in DOMAIN found :
                          canonical_reference(found[k].reference) \in DOMAIN dp_verse_map}
        IN  /\ dp_result.placeholders_replaced = Cardinality(done)
            /\ \A i \in DOMAIN before : \A j \in DOMAIN before[i] :
                  Supplied(before[i][j]) =>
                      after[i][j] =
                          formatted_text(dp_verse_map[canonical_reference(ReferenceOf(before[i][j]))])
            /\ \A i \in DOMAIN before :
                  (\A j \in DOMAIN before[i] : ~IsPlaceholderToken(before[i][j]))
                      => after[i] = before[i]

(***************************************************************************)
(* Translation downloader (core/translation_downloader.py).  The database  *)
(* it fills is offline_db.                                                 *)
(***************************************************************************)

\* Chapters per book the model follows (CHAPTER_COUNTS has 1 to 150) and
\* verses tried per chapter (the code tries 1 to 200).
MaxChapters == 2

MaxVerses == 2

DownloadTranslation == "NIV"

\* The lists of books download_translation is called with.
BookLists == {<<"Genesis">>, <<"Genesis", "John">>}

\* OfflineBibleDatabase.add_translation.
add_translation(db, translation) ==
    [db EXCEPT !.translations = @ \cup {translation}]

\* OfflineBibleDatabase.add_verses_bulk: nothing for an empty list or an
\* unregistered translation, otherwise every verse is inserted or updated.
RECURSIVE add_verses_bulk(_, _, _)
add_verses_bulk(db, translation, verse_list) ==
    IF verse_list = <<>> \/ ~has_translation(db, translation) THEN db
    ELSE add_verses_bulk(add_verse(db, translation, Head(verse_list)),
                         translation, Tail(verse_list))

\* The end of the chapter loop of one book (range exhausted or break): the
\* book's verses are stored in one bulk call and the book loop goes on.
\* store: "ok" or "raises" (the except of download_translation returns
\* False).
store_book(d, store) ==
    IF d.book_verses # <<>> /\ store = "raises"
    THEN [d EXCEPT !.pc = "returned", !.returned = "False"]
    ELSE [d EXCEPT !.pc = "book", !.book_index = @ + 1]

InitDownload ==
    /\ offline_db = [translations |-> {}, rows |-> EmptyMap]
    /\ DownloaderConstructed
    /\ cache = CacheHolding({})
    /\ cache_manager = FALSE
    /\ prefer_offline = TRUE
    /\ statistics = [offline_hits |-> 0, cache_hits |-> 0, api_calls |-> 0]
    /\ call = NoCall
    /\ fetch_calls = 0
    /\ calls_since_reset = 0
    /\ BatchConstructed
    /\ GuiConstructed
    /\ ClientConstructed
    /\ cm_log = <<>>
    /\ NoDocument
    /\ ServicesConstructed

\* download_translation(translation, books) up to the book loop: the flag is
\* cleared and the translation registered (or add_translation raises and the
\* except returns False).
DownloadStart ==
    /\ download.pc = "idle"
    /\ cancelled' = FALSE
    /\ \E books \in BookLists, registered \in BOOLEAN :
         IF registered
         THEN /\ offline_db' = add_translation(offline_db, DownloadTranslation)
              /\ download' = [NoDownload EXCEPT !.pc = "book", !.books = books]
              /\ dl_events' = dl_events
         ELSE /\ offline_db' = offline_db
              /\ dl_events' = Append(dl_events,
                     [e |-> "db_raises", book_index |-> 0, chapter |-> 0])
              /\ download' = [NoDownload EXCEPT !.pc = "returned", !.books = books,
                                                !.returned = "False"]
    /\ UNCHANGED notDownload

\* cancel(), called from the dialog once the downloader exists: while the
\* download runs, or after create_task and before the task's first step
\* (recorded as "cancel_before").
Cancel ==
    /\ download.pc # "returned"
    /\ ~cancelled
    /\ cancelled' = TRUE
    /\ dl_events' = Append(dl_events,
           [e |-> IF download.pc = "idle" THEN "cancel_before" ELSE "cancel",
            book_index |-> download.book_index,
            chapter |-> download.chapter])
    /\ UNCHANGED <<download, offline_db>>
    /\ UNCHANGED notDownload

\* Head of the book loop: the loop ends (completed, return True), the flag is
\* seen (return False) or the chapters of the next book begin.
BookLoop ==
    /\ download.pc = "book"
    /\ download' =
         IF download.book_index > Len(download.books)
         THEN [download EXCEPT !.pc = "returned", !.returned = "True"]
         ELSE IF cancelled
         THEN [download EXCEPT !.pc = "returned", !.returned = "False"]
         ELSE [download EXCEPT !.pc = "chapter", !.chapter = 1, !.book_verses = <<>>]
    /\ UNCHANGED <<cancelled, offline_db, dl_events>>
    /\ UNCHANGED notDownload

\* Head of the chapter loop: the range is exhausted (the book is stored), the
\* flag is seen (return False) or _download_chapter is called.
ChapterLoop ==
    /\ download.pc = "chapter"
    /\ \E store \in {"ok", "raises"} :
         IF download.chapter > MaxChapters
         THEN /\ download' = store_book(download, store)
              /\ offline_db' = IF store = "ok"
                               THEN add_verses_bulk(offline_db, DownloadTranslation,
                                                    download.book_verses)
                               ELSE offline_db
              /\ dl_events' = IF download.book_verses # <<>>
                              THEN Append(dl_events,
                                       [e |-> IF store = "ok" THEN "bulk" ELSE "db_raises",
                                        book_index |-> download.book_index,
                                        chapter |-> download.chapter])
                              ELSE dl_events
         ELSE /\ download' =
                   IF cancelled
                   THEN [download EXCEPT !.pc = "returned", !.returned = "False"]
                   ELSE [download EXCEPT !.pc = "verse", !.verse_num = 1,
                                         !.chapter_verses = <<>>]
              /\ UNCHANGED <<offline_db, dl_events>>
    /\ UNCHANGED cancelled
    /\ UNCHANGED notDownload

\* Head of the verse loop of _download_chapter: on the flag or after the last
\* verse number the chapter's verses are returned to download_translation,
\* which adds them to the book's and goes to the next chapter, or, for an
\* empty chapter, leaves the chapter loop and stores the book; otherwise the
\* next verse is requested.
VerseLoop ==
    /\ download.pc = "verse"
    /\ \E store \in {"ok", "raises"} :
         IF ~cancelled /\ download.verse_num <= MaxVerses
         THEN /\ download' = [download EXCEPT !.pc = "request"]
              /\ UNCHANGED <<offline_db, dl_events>>
         ELSE IF download.chapter_verses # <<>>
         THEN /\ download' = [download EXCEPT
                     !.pc = "chapter",
                     !.book_verses = @ \o download.chapter_verses,
                     !.chapter = @ + 1]
              /\ UNCHANGED <<offline_db, dl_events>>
         ELSE /\ download' = store_book(download, store)
              /\ offline_db' = IF store = "ok"
                               THEN add_verses_bulk(offline_db, DownloadTranslation,
                                                    download.book_verses)
                               ELSE offline_db
              /\ dl_events' = IF download.book_verses # <<>>
                              THEN Append(dl_events,
                                       [e |-> IF store = "ok" THEN "bulk" ELSE "db_raises",
                                        book_index |-> download.book_index,
                                        chapter |-> download.chapter])
                              ELSE dl_events
    /\ UNCHANGED cancelled
    /\ UNCHANGED notDownload

\* await self.api_client.fetch_verse(reference): the fetch of the verse
\* starts.
FetchStart ==
    /\ download.pc = "request"
    /\ download' = [download EXCEPT !.pc = "fetching"]
    /\ dl_events' = Append(dl_events,
           [e |-> "fetch", book_index |-> download.book_index,
            chapter |-> download.chapter])
    /\ UNCHANGED <<cancelled, offline_db>>
    /\ UNCHANGED notDownload

end_of_chapter_aborts(d) ==
    [d EXCEPT !.pc = "returned", !.returned = "False"]

\* The break of _download_chapter's verse loop, taken when the fetch gives
\* None (else branch) or raises (except branch): no further verse of the
\* chapter is tried and the verses so far are returned.
end_of_chapter(d) ==
    [d EXCEPT !.pc = "verse", !.verse_num = MaxVerses + 1]

\* The fetch gives a verse, which is kept, or gives None or raises, which
\* ends the verse loop.
FetchEnd ==
    /\ download.pc = "fetching"
    /\ \E outcome \in {"verse", "none", "raises"} :
         LET reference == VerseReference(download.books[download.book_index],
                                         download.chapter, download.verse_num, 0,
                                         DownloadTranslation)
         IN  /\ download' =
                   IF outcome = "verse"
                   THEN [download EXCEPT
                           !.pc = "verse",
                           !.chapter_verses =
                               Append(@, Verse(reference, SourceText("api", reference))),
                           !.verse_num = @ + 1]
                   ELSE end_of_chapter(download)
             /\ dl_events' = IF outcome = "verse" THEN dl_events
                             ELSE Append(dl_events,
                                      [e |-> "fetch_failed",
                                       book_index |-> download.book_index,
                                       chapter |-> download.chapter])
    /\ UNCHANGED <<cancelled, offline_db>>
    /\ UNCHANGED notDownload

NextDownload ==
    \/ DownloadStart
    \/ Cancel
    \/ BookLoop
    \/ ChapterLoop
    \/ VerseLoop
    \/ FetchStart
    \/ FetchEnd

SpecDownload == InitDownload /\ [][NextDownload]_vars

(***************************************************************************)
(* Properties of download_translation                                      *)
(***************************************************************************)

\* C19: a verse fetch that starts after cancel() belongs to the chapter that
\* was being downloaded when cancel() was called, never to a further chapter
\* or book, and a download_translation call during which cancel() was called
\* returns False.
C19_CancelStopsAndReturnsFalse ==
    /\ \A i, j \in DOMAIN dl_events :
          (i < j /\ dl_events[i].e = "cancel" /\ dl_events[j].e = "fetch") =>
              /\ dl_events[j].book_index = dl_events[i].book_index
              /\ dl_events[j].chapter = dl_events[i].chapter
    /\ (download.pc = "returned" /\ \E i \in DOMAIN dl_events : dl_events[i].e = "cancel")
          => download.returned = "False"

\* C20: while the verses of a chapter are being fetched, every verse fetched
\* for an earlier chapter is in the offline database.
C20_ChapterStoredBeforeNext ==
    download.pc \in {"request", "fetching"} =>
        \A k \in DOMAIN download.book_verses :
            get_verse(offline_db, download.book_verses[k].reference) # None

\* The events of a kind, as indices into dl_events.
EventsOf(kind) == {i \in DOMAIN dl_events : dl_events[i].e = kind}

\* C21: a download_translation call in which no cancel() was seen and no
\* database call raised returns True, whatever verse fetches failed or gave
\* nothing, and has fetched from every book of its list: a failed fetch is
\* never what makes it return False, and the books after it are downloaded.
C21_FetchFailureOnlyEndsChapter ==
    (/\ download.pc = "returned"
     /\ EventsOf("cancel") = {}
     /\ EventsOf("db_raises") = {})
        => /\ download.returned = "True"
           /\ \A b \in DOMAIN download.books :
                 \E i \in EventsOf("fetch") : dl_events[i].book_index = b

\* A download of two books has returned True although a fetch of the first
\* book failed, and the second book was fetched from after that failure.
C21_Witness ==
    /\ download.pc = "returned"
    /\ download.returned = "True"
    /\ Len(download.books) = 2
    /\ \E i \in EventsOf("fetch_failed") :
          /\ dl_events[i].book_index = 1
          /\ \E j \in EventsOf("fetch") : j > i /\ dl_events[j].book_index = 2

\* C26: a download_translation call that was preceded by a cancel() on its
\* downloader returns False and fetches no verse.
C26_EarlyCancelNotLost ==
    (download.pc = "returned" /\ EventsOf("cancel_before") # {})
        => /\ download.returned = "False"
           /\ EventsOf("fetch") = {}

(***************************************************************************)
(* Offline database, table by table (core/offline_database.py).  A row of  *)
(* the verses table names its translation by abbreviation (the code joins  *)
(* on translation_id, which is one-to-one with the abbreviation).          *)
(***************************************************************************)

\* add_verse calls in one behaviour.
MaxAddCalls == 3

\* The translations, verse numbers and texts add_verse is called with.
DatabaseTranslations == {"KJV", "NIV"}

DatabaseVerseNumbers == {16, 17}

DatabaseTexts == {"Original text", "Updated text"}

\* The rows of the verses table that a filter_by on translation, book,
\* chapter and verse matches.
matching_rows(rows, translation, reference) ==
    {i \in DOMAIN rows :
        /\ rows[i].translation = translation
        /\ rows[i].book = reference.book
        /\ rows[i].chapter = reference.chapter
        /\ rows[i].verse = reference.start_verse}

\* query(VerseModel).filter_by(translation_id=trans.id).count().
count_rows(rows, translation) ==
    Cardinality({i \in DOMAIN rows : rows[i].translation = translation})

VerseModel(translation, verse) ==
    [translation |-> translation, book |-> verse.reference.book,
     chapter |-> verse.reference.chapter, verse |-> verse.reference.start_verse,
     text |-> verse.text]

add_verse_rows_always_inserts(translations, rows, translation, verse) ==
    IF translation \notin DOMAIN translations
    THEN [translations |-> translations, rows |-> rows, returned |-> "False"]
    ELSE LET added == Append(rows, VerseModel(translation, verse))
         IN  [translations |-> [translations EXCEPT ![translation].verse_count =
                                    count_rows(added, translation)],
              rows |-> added, returned |-> "True"]

\* OfflineBibleDatabase.add_verse when the commit succeeds: False for an
\* unregistered translation; otherwise the first matching row gets the text,
\* or a new row is added; then the translation's verse_count is set to the
\* number of its rows (the count query flushes the pending insert first, the
\* session being created with the default autoflush).
add_verse_rows(translations, rows, translation, verse) ==
    IF translation \notin DOMAIN translations
    THEN [translations |-> translations, rows |-> rows, returned |-> "False"]
    ELSE LET existing == matching_rows(rows, translation, verse.reference)
             first    == CHOOSE i \in existing : \A j \in existing : i <= j
             written  == IF existing # {}
                         THEN [rows EXCEPT ![first].text = verse.text]
                         ELSE Append(rows, VerseModel(translation, verse))
         IN  [translations |-> [translations EXCEPT ![translation].verse_count =
                                    count_rows(written, translation)],
              rows |-> written, returned |-> "True"]

\* OfflineBibleDatabase.add_translation, row level: the existing row is kept,
\* or a row with verse_count 0 (the column default) is added.
add_translation_row(translations, translation) ==
    IF translation \in DOMAIN translations THEN translations
    ELSE [t \in DOMAIN translations \cup {translation} |->
             IF t = translation THEN [verse_count |-> 0] ELSE translations[t]]

InitDatabase ==
    /\ ServicesConstructed
    /\ CoreConstructed

\* database.add_translation(translation, name).
AddTranslation ==
    /\ \E translation \in DatabaseTranslations :
         /\ translation \notin DOMAIN db_translations
         /\ db_translations' = add_translation_row(db_translations, translation)
    /\ UNCHANGED <<db_verses, db_calls>>
    /\ UNCHANGED notDatabase

\* database.add_verse(translation, verse); commit_ok = FALSE: the session
\* raises, the except rolls back and re-raises.
AddVerse ==
    /\ Len(db_calls) < MaxAddCalls
    /\ \E translation \in DatabaseTranslations, v \in DatabaseVerseNumbers,
          text \in DatabaseTexts, commit_ok \in BOOLEAN :
         LET reference == VerseReference("John", 3, v, 0, translation)
             verse     == Verse(reference, text)
             done      == add_verse_rows(db_translations, db_verses, translation, verse)
             raises    == done.returned = "True" /\ ~commit_ok
         IN  /\ db_translations' = IF raises THEN db_translations ELSE done.translations
             /\ db_verses' = IF raises THEN db_verses ELSE done.rows
             /\ db_calls' = Append(db_calls,
                    [translation |-> translation, reference |-> reference,
                     text |-> text,
                     returned |-> IF raises THEN "raises" ELSE done.returned])
    /\ UNCHANGED notDatabase

NextDatabase ==
    \/ AddTranslation
    \/ AddVerse

SpecDatabase == InitDatabase /\ [][NextDatabase]_vars

\* The add_verse calls that stored their verse under the key of row r.
StoredCalls(r) ==
    {i \in DOMAIN db_calls :
        /\ db_calls[i].returned = "True"
        /\ db_calls[i].translation = r.translation
        /\ db_calls[i].reference.book = r.book
        /\ db_calls[i].reference.chapter = r.chapter
        /\ db_calls[i].reference.start_verse = r.verse}

\* C22: after any sequence of add_verse calls the verses table has one row
\* per (translation, book, chapter, verse) that a call stored, no row for any
\* other key, each row's text is the text of the latest call that stored its
\* key, and each translation's verse_count is the number of its rows.
C22_OneRowPerKeyLatestText ==
    /\ \A i, j \in DOMAIN db_verses :
          (/\ db_verses[i].translation = db_verses[j].translation
           /\ db_verses[i].book = db_verses[j].book
           /\ db_verses[i].chapter = db_verses[j].chapter
           /\ db_verses[i].verse = db_verses[j].verse) => i = j
    /\ \A i \in DOMAIN db_verses :
          /\ StoredCalls(db_verses[i]) # {}
          /\ \E c \in StoredCalls(db_verses[i]) :
                /\ \A d \in StoredCalls(db_verses[i]) : d <= c
                /\ db_verses[i].text = db_calls[c].text
    /\ \A c \in DOMAIN db_calls :
          db_calls[c].returned = "True" =>
              matching_rows(db_verses, db_calls[c].translation, db_calls[c].reference) # {}
    /\ \A t \in DOMAIN db_translations :
          db_translations[t].verse_count = count_rows(db_verses, t)

\* A verse was stored twice with different texts, another verse once: two
\* rows, the first with the second text, and a verse_count of 2.
C22_Witness ==
    /\ Len(db_calls) = 3
    /\ \A c \in DOMAIN db_calls : db_calls[c].returned = "True"
    /\ db_calls[1].reference = db_calls[2].reference
    /\ db_calls[1].translation = "KJV" /\ db_calls[2].translation = "KJV"
    /\ db_calls[3].translation = "KJV"
    /\ db_calls[3].reference # db_calls[1].reference
    /\ db_calls[1].text = "Original text"
    /\ db_calls[2].text = "Updated text"
    /\ Len(db_verses) = 2
    /\ db_verses[1].text = "Updated text"
    /\ db_translations["KJV"].verse_count = 2

(***************************************************************************)
(* TranslationType (models/verse.py).  A string is modelled as the list of *)
(* its words, a run of white space at either end as the word " ".          *)
(***************************************************************************)

\* from_display_name calls in one behaviour.
MaxLookups == 2

\* TranslationType.__members__.
TranslationMembers == {"NIV", "KJV", "ESV", "NKJV", "NLT"}

\* str.upper() on a word; the words not listed have no lower-case letter.
upper_word(w) ==
    CASE w = "niv" -> "NIV" [] w = "kjv" -> "KJV" [] w = "esv" -> "ESV"
      [] w = "nkjv" -> "NKJV" [] w = "nlt" -> "NLT"
      [] w = "New" -> "NEW" [] w = "International" -> "INTERNATIONAL"
      [] w = "Version" -> "VERSION" [] w = "King" -> "KING" [] w = "James" -> "JAMES"
      [] w = "English" -> "ENGLISH" [] w = "Standard" -> "STANDARD"
      [] w = "Living" -> "LIVING" [] w = "Translation" -> "TRANSLATION"
      [] OTHER -> w

upper(name) == [i \in DOMAIN name |-> upper_word(name[i])]

\* str.strip(): white space at the ends removed.
RECURSIVE strip(_)
strip(name) ==
    IF name = <<>> THEN name
    ELSE IF Head(name) = " " THEN strip(Tail(name))
    ELSE IF name[Len(name)] = " " THEN strip(SubSeq(name, 1, Len(name) - 1))
    ELSE name

\* The full name of a member, as the keys of 'mapping' and the texts of
\* 'names' spell it.
full_name(member) ==
    CASE member = "NIV" -> <<"New", "International", "Version">>
      [] member = "KJV" -> <<"King", "James", "Version">>
      [] member = "ESV" -> <<"English", "Standard", "Version">>
      [] member = "NKJV" -> <<"New", "King", "James", "Version">>
      [] member = "NLT" -> <<"New", "Living", "Translation">>

\* TranslationType.display_name: "<full name> (<code>)".
display_name(member) ==
    CASE member = "NIV" -> <<"New", "International", "Version", "(NIV)">>
      [] member = "KJV" -> <<"King", "James", "Version", "(KJV)">>
      [] member = "ESV" -> <<"English", "Standard", "Version", "(ESV)">>
      [] member = "NKJV" -> <<"New", "King", "James", "Version", "(NKJV)">>
      [] member = "NLT" -> <<"New", "Living", "Translation", "(NLT)">>

\* TranslationType.from_display_name: the member whose name is the stripped
\* upper-case argument, else the member 'mapping' lists for it, else
\* ValueError.
from_display_name(name) ==
    LET name_upper == strip(upper(name))
    IN  IF \E m \in TranslationMembers : name_upper = <<m>>
        THEN CHOOSE m \in TranslationMembers : name_upper = <<m>>
        ELSE IF \E m \in TranslationMembers : name_upper = upper(full_name(m))
        THEN CHOOSE m \in TranslationMembers : name_upper = upper(full_name(m))
        ELSE "ValueError"

\* A code in lower case, as a user may type it.
lower_code(member) ==
    CASE member = "NIV" -> "niv" [] member = "KJV" -> "kjv" [] member = "ESV" -> "esv"
      [] member = "NKJV" -> "nkjv" [] member = "NLT" -> "nlt"

\* The names from_display_name is called with.
LookupNames ==
    UNION {{display_name(m), <<m>>, <<lower_code(m)>>, <<" ", m, " ">>,
            full_name(m), upper(full_name(m))} : m \in TranslationMembers}
    \cup {<<"INVALID_TRANSLATION">>}

InitTranslation ==
    /\ ServicesConstructed
    /\ CoreConstructed

\* TranslationType.from_display_name(name).
FromDisplayName ==
    /\ Len(tt_log) < MaxLookups
    /\ \E name \in LookupNames :
         tt_log' = Append(tt_log, [name |-> name, result |-> from_display_name(name)])
    /\ UNCHANGED notTranslation

NextTranslation ==
    \/ FromDisplayName

SpecTranslation == InitTranslation /\ [][NextTranslation]_vars

\* C23: from_display_name of a member's display_name gives the member, and
\* from_display_name of a member's short code gives the member.
C23_DisplayNameRoundTrip ==
    \A i \in DOMAIN tt_log : \A m \in TranslationMembers :
        /\ tt_log[i].name = display_name(m) => tt_log[i].result = m
        /\ tt_log[i].name = <<m>> => tt_log[i].result = m

(***************************************************************************)
(* DocumentProcessor.load_document as a context manager                    *)
(* (core/document_processor.py, utils/validators.py, utils/file_handler.py)*)
(***************************************************************************)

\* 'with load_document(...)' statements in one behaviour.
MaxLoads == 2

\* An exception: its type and, for one raised 'from e', the type of e.
Exception(type) == [type |-> type, from |-> "none"]

NoException == Exception("none")

\* The files load_document is called with.
LoadFiles ==
    {[name |-> "report.docx", suffix |-> ".docx", exists |-> TRUE, is_file |-> TRUE],
     [name |-> "missing.docx", suffix |-> ".docx", exists |-> FALSE, is_file |-> FALSE],
     [name |-> "notes.txt", suffix |-> ".txt", exists |-> TRUE, is_file |-> TRUE],
     [name |-> "folder.docx", suffix |-> ".docx", exists |-> TRUE, is_file |-> FALSE]}

\* What the code inside the scope raises: nothing, an exception of
\* save_document, of replace_placeholders or of the caller itself, or a
\* KeyboardInterrupt (which is not an Exception).
BodyExceptions ==
    {"none", "FileExistsError", "IOError", "KeyError", "KeyboardInterrupt"}

\* The classes 'except Exception' catches.
IsException(type) == type \notin {"none", "KeyboardInterrupt"}

\* validate_file_path(path, must_exist=True, extension=".docx").
validate_file_path(file) ==
    IF file.suffix # ".docx" THEN Exception("ValueError")
    ELSE IF ~file.exists THEN Exception("FileNotFoundError")
    ELSE IF ~file.is_file THEN Exception("ValueError")
    ELSE NoException

\* create_backup: a failed copy is raised as IOError.
create_backup(file, copy_ok) ==
    IF ~file.exists THEN Exception("FileNotFoundError")
    ELSE IF ~copy_ok THEN Exception("IOError")
    ELSE NoException

\* The except clause of load_document: raise ValueError(...) from e.
failed_to_load(type) == [type |-> "ValueError", from |-> type]

\* load_document up to its yield: validation and backup are outside the try,
\* Document(path) is inside.  The exception that leaves the call, or none
\* when the document is yielded.
load_document_enter(file, backup, copy_ok, opens) ==
    IF validate_file_path(file) # NoException THEN validate_file_path(file)
    ELSE IF backup /\ create_backup(file, copy_ok) # NoException
    THEN create_backup(file, copy_ok)
    ELSE IF ~opens THEN failed_to_load("PackageNotFoundError")
    ELSE NoException

\* load_document after its yield: the context manager throws the exception
\* of the with body into the generator at the yield, which is inside the try;
\* 'except Exception' catches it.  The exception that leaves the with
\* statement.
load_document_exit(thrown) ==
    IF IsException(thrown) THEN failed_to_load(thrown) ELSE Exception(thrown)

InitLoad ==
    /\ ServicesConstructed
    /\ CoreConstructed

\* 'with self.document_processor.load_document(file_path) as doc:' is
\* reached: the scope is entered, or the statement raises.
LoadEnter ==
    /\ loading.pc = "outside"
    /\ Len(load_log) < MaxLoads
    /\ \E file \in LoadFiles, backup \in BOOLEAN, copy_ok \in BOOLEAN, opens \in BOOLEAN :
         LET raised == load_document_enter(file, backup, copy_ok, opens)
         IN  IF raised = NoException
             THEN /\ loading' = [pc |-> "inside", file |-> file]
                  /\ UNCHANGED load_log
             ELSE /\ loading' = [pc |-> "outside", file |-> None]
                  /\ load_log' = Append(load_log,
                         [file |-> file.name, stage |-> "enter", thrown |-> "none",
                          raised |-> raised])
    /\ UNCHANGED notLoad

\* The code inside the scope ends, normally or by raising.
LoadBodyEnds ==
    /\ loading.pc = "inside"
    /\ \E thrown \in BodyExceptions :
         load_log' = Append(load_log,
             [file |-> loading.file.name, stage |-> "body", thrown |-> thrown,
              raised |-> load_document_exit(thrown)])
    /\ loading' = [pc |-> "outside", file |-> None]
    /\ UNCHANGED notLoad

NextLoad ==
    \/ LoadEnter
    \/ LoadBodyEnds

SpecLoad == InitLoad /\ [][NextLoad]_vars

\* C28: an exception raised by the code inside the load_document scope
\* leaves the with statement as it was raised, and the only exception that
\* load_document converts (raises 'from' another) is a failure to open the
\* document.
C28_BodyExceptionUnchanged ==
    \A i \in DOMAIN load_log :
        /\ load_log[i].stage = "body" => load_log[i].raised = Exception(load_log[i].thrown)
        /\ load_log[i].raised.from # "none" => load_log[i].stage = "enter"

(***************************************************************************)
(* Settings (config/settings.py).  Three of the fields are followed: the   *)
(* API key, one UI field (theme) and one processing flag (auto_backup).    *)
(* No VERSE_INSERTER_* environment variable and no .env file is set.       *)
(***************************************************************************)

\* The values the fields are given.
ApiKeys == {"", "key-A"}

Themes == {"cosmo", "darkly"}

\* Settings._encrypt and Settings._decrypt with the key of the key file: the
\* empty value is left as it is.
_encrypt(value) == IF value = "" THEN value ELSE "fernet(key-A)"

_decrypt(value) == IF value = "" THEN value ELSE "key-A"

\* Settings.save_to_file: the dumped fields, the API key encrypted, written
\* to config.json; a failure is logged and the file stays as it was.
save_to_file(fields, file, write_ok) ==
    IF write_ok
    THEN [exists |-> TRUE, data |-> [fields EXCEPT !.api_key = _encrypt(@)]]
    ELSE file

\* Settings.load_from_file: nothing without a config file; otherwise every
\* key of the file is set on the object, the API key decrypted; a file that
\* cannot be read or parsed is logged and the fields stay as they were.
load_from_file(fields, file, read_ok) ==
    IF ~file.exists \/ ~read_ok THEN fields
    ELSE [file.data EXCEPT !.api_key = _decrypt(@)]

\* Settings.__init__: the field defaults, then load_from_file.
__init__(file, read_ok) ==
    load_from_file(SettingsDefaults, file, read_ok)

\* Settings.reset_to_defaults: the key is kept, __init__ is run again, the
\* key is put back and the settings are saved.
reset_to_defaults(fields, file, read_ok, write_ok) ==
    LET current_key == fields.api_key
        reloaded    == __init__(file, read_ok)
        restored    == [reloaded EXCEPT !.api_key = current_key]
    IN  [settings |-> restored,
         config_file |-> save_to_file(restored, file, write_ok)]

InitSettings ==
    /\ ServicesConstructed
    /\ CoreConstructed

\* The settings dialog assigns a field of the object.
SetField ==
    /\ \/ \E theme \in Themes : settings' = [settings EXCEPT !.theme = theme]
       \/ \E flag \in BOOLEAN : settings' = [settings EXCEPT !.auto_backup = flag]
    /\ settings_op' = "set"
    /\ UNCHANGED config_file
    /\ UNCHANGED notSettings

\* settings.save_to_file().
SaveToFile ==
    /\ \E write_ok \in BOOLEAN :
         config_file' = save_to_file(settings, config_file, write_ok)
    /\ settings_op' = "save_to_file"
    /\ UNCHANGED settings
    /\ UNCHANGED notSettings

\* settings.update_api_key(api_key).
UpdateApiKey ==
    /\ \E api_key \in ApiKeys, write_ok \in BOOLEAN :
         /\ settings' = [settings EXCEPT !.api_key = api_key]
         /\ config_file' = save_to_file(settings', config_file, write_ok)
    /\ settings_op' = "update_api_key"
    /\ UNCHANGED notSettings

\* settings.reset_to_defaults().
ResetToDefaults ==
    /\ \E read_ok \in BOOLEAN, write_ok \in BOOLEAN :
         LET done == reset_to_defaults(settings, config_file, read_ok, write_ok)
         IN  /\ settings' = done.settings
             /\ config_file' = done.config_file
             /\ settings_op' = IF write_ok THEN "reset_to_defaults"
                               ELSE "reset_to_defaults_unsaved"
    /\ UNCHANGED notSettings

NextSettings ==
    \/ SetField
    \/ SaveToFile
    \/ UpdateApiKey
    \/ ResetToDefaults

SpecSettings == InitSettings /\ [][NextSettings]_vars

\* C29: right after reset_to_defaults every field but the API key has its
\* default value in the object and, when the save went through, in
\* config.json, whatever the file held before.
C29_ResetRestoresDefaults ==
    /\ settings_op \in {"reset_to_defaults", "reset_to_defaults_unsaved"} =>
          /\ settings.theme = SettingsDefaults.theme
          /\ settings.auto_backup = SettingsDefaults.auto_backup
    /\ settings_op = "reset_to_defaults" =>
          /\ config_file.exists
          /\ config_file.data.theme = SettingsDefaults.theme
          /\ config_file.data.auto_backup = SettingsDefaults.auto_backup

(***************************************************************************)
(* TemplateManager (core/format_template.py).  The text of a template is   *)
(* modelled as the list of its "{...}" fields; two of the six built-in     *)
(* templates are followed.                                                 *)
(***************************************************************************)

\* Custom templates the model lets the list grow to.
MaxCustomTemplates == 2

FormatTemplate(name, template) ==
    [name |-> name, template |-> template, is_builtin |-> FALSE]

\* TemplateManager.BUILTIN_TEMPLATES.
BUILTIN_TEMPLATES ==
    <<[name |-> "Plain", template |-> <<"{verse_text}">>, is_builtin |-> TRUE],
      [name |-> "With Reference", template |-> <<"{verse_text}", "{reference}">>,
       is_builtin |-> TRUE]>>

\* The names and texts the operations are called with ("" is the empty
\* name, <<>> the empty text).
TemplateNames == {"Plain", "Mine", "Other", ""}

TemplateTexts == {<<"{verse_text}">>, <<"{reference}", "{bogus}">>, <<>>}

\* The contents of the files import_templates is called with.
ImportFiles ==
    {<<FormatTemplate("Mine", <<"{verse_text}">>)>>,
     <<FormatTemplate("Other", <<"{verse_text}">>),
       FormatTemplate("Other", <<"{verse_text}">>)>>,
     <<FormatTemplate("Plain", <<"{verse_text}">>),
       FormatTemplate("Mine", <<"{reference}", "{bogus}">>)>>}

\* TemplateManager.get_all_templates.
get_all_templates(custom) == BUILTIN_TEMPLATES \o custom

\* TemplateManager.get_template(name) is not None.
get_template(custom, name) ==
    \E i \in DOMAIN get_all_templates(custom) : get_all_templates(custom)[i].name = name

\* TemplateManager._validate_template.
_validate_template(template) ==
    /\ template.name # ""
    /\ template.template # <<>>
    /\ Range(template.template) \subseteq
           {"{verse_text}", "{reference}", "{book}", "{chapter}", "{verse}",
            "{translation}", "{translation_full}"}

\* The position of the first custom template of that name, 0 if none.
index_of(custom, name) ==
    IF \E i \in DOMAIN custom : custom[i].name = name
    THEN CHOOSE i \in DOMAIN custom :
             custom[i].name = name /\ \A j \in DOMAIN custom : custom[j].name = name => i <= j
    ELSE 0

\* TemplateManager.add_template: the list afterwards and the result.
add_template(custom, template) ==
    IF get_template(custom, template.name) THEN [custom |-> custom, returned |-> "False"]
    ELSE IF ~_validate_template(template) THEN [custom |-> custom, returned |-> "False"]
    ELSE [custom |-> Append(custom, [template EXCEPT !.is_builtin = FALSE]),
          returned |-> "True"]

\* TemplateManager.update_template: the first custom template called 'name'
\* is replaced by the given template.
update_template(custom, name, template) ==
    IF index_of(custom, name) = 0 THEN [custom |-> custom, returned |-> "False"]
    ELSE IF ~_validate_template(template) THEN [custom |-> custom, returned |-> "False"]
    ELSE [custom |-> [custom EXCEPT ![index_of(custom, name)] =
                         [template EXCEPT !.is_builtin = FALSE]],
          returned |-> "True"]

\* TemplateManager.delete_template.
delete_template(custom, name) ==
    IF index_of(custom, name) = 0 THEN [custom |-> custom, returned |-> "False"]
    ELSE [custom |-> SubSeq(custom, 1, index_of(custom, name) - 1)
                     \o SubSeq(custom, index_of(custom, name) + 1, Len(custom)),
          returned |-> "True"]

\* The loop of import_templates: every template of the file whose name is
\* not taken and that is valid is appended.
RECURSIVE import_loop(_, _)
import_loop(custom, data) ==
    IF data = <<>> THEN custom
    ELSE import_loop(
             IF ~get_template(custom, Head(data).name) /\ _validate_template(Head(data))
             THEN Append(custom, [Head(data) EXCEPT !.is_builtin = FALSE])
             ELSE custom,
             Tail(data))

InitTemplates ==
    /\ ServicesConstructed
    /\ CoreConstructed

\* What an operation that changed the list leaves: _save_templates writes
\* the file, or raises, and the exception leaves the operation.
Saved(done, save_ok) ==
    /\ custom_templates' = done.custom
    /\ templates_file' = IF done.returned = "True" /\ save_ok THEN done.custom
                         ELSE templates_file
    /\ tm_returned' = IF done.returned = "True" /\ ~save_ok THEN "raises"
                      ELSE done.returned

\* manager.add_template(template).
AddTemplate ==
    /\ Len(custom_templates) < MaxCustomTemplates
    /\ \E name \in TemplateNames, text \in TemplateTexts, save_ok \in BOOLEAN :
         Saved(add_template(custom_templates, FormatTemplate(name, text)), save_ok)
    /\ UNCHANGED notTemplates

\* manager.update_template(name, template).
UpdateTemplate ==
    /\ \E name \in TemplateNames, new_name \in TemplateNames, text \in TemplateTexts,
          save_ok \in BOOLEAN :
         Saved(update_template(custom_templates, name, FormatTemplate(new_name, text)),
               save_ok)
    /\ UNCHANGED notTemplates

\* manager.delete_template(name).
DeleteTemplate ==
    /\ \E name \in TemplateNames, save_ok \in BOOLEAN :
         Saved(delete_template(custom_templates, name), save_ok)
    /\ UNCHANGED notTemplates

\* manager.import_templates(file_path): a file that cannot be read gives 0;
\* otherwise the loop runs, the list is saved if anything was imported, and
\* a failure of the save is answered with 0 like any other exception.
ImportTemplates ==
    /\ \E data \in ImportFiles, read_ok \in BOOLEAN, save_ok \in BOOLEAN :
         LET imported == import_loop(custom_templates, data)
             count    == Len(imported) - Len(custom_templates)
         IN  /\ Len(imported) <= MaxCustomTemplates
             /\ IF ~read_ok
                THEN /\ tm_returned' = "0"
                     /\ UNCHANGED <<custom_templates, templates_file>>
                ELSE /\ custom_templates' = imported
                     /\ templates_file' = IF count > 0 /\ save_ok THEN imported
                                          ELSE templates_file
                     /\ tm_returned' = IF count = 0 \/ ~save_ok THEN "0"
                                       ELSE "imported"
    /\ UNCHANGED notTemplates

NextTemplates ==
    \/ AddTemplate
    \/ UpdateTemplate
    \/ DeleteTemplate
    \/ ImportTemplates

SpecTemplates == InitTemplates /\ [][NextTemplates]_vars

\* C30: no two templates of get_all_templates have the same name.
C30_TemplateNamesUnique ==
    \A i, j \in DOMAIN get_all_templates(custom_templates) :
        get_all_templates(custom_templates)[i].name
            = get_all_templates(custom_templates)[j].name => i = j

====
